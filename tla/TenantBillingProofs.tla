------------------------- MODULE TenantBillingProofs -------------------------
(***************************************************************************)
(* Proofs about TenantBilling, for any number of workers, subscriptions    *)
(* and operations.  The rows the workers carry are as good as the stored   *)
(* one (CopyOK), because each was read whole and changed by an operation   *)
(* that keeps it good; that is why writing back a stale copy cannot break  *)
(* a relation between two columns, however many updates it undoes.         *)
(***************************************************************************)
EXTENDS MCTenantBilling, FiniteSetTheorems, TLAPS

(* A copy r of the row is good, given the gateway's subscriptions.         *)
CopyOK(r, given) ==
    /\ r \in Row
    /\ r.max = Limits[r.plan]
    /\ r.sub # None => given[r.sub] # "none" /\ r.cust

(* The steps taken with a subscription in the copy.                        *)
Subscribed ==
    {"getSub", "prorate", "charge", "updateSub", "cancelSub", "dunning"}

USE DEF Subscribed

(* What a worker in the middle of an operation relies on.                  *)
TaskOK(t, given) ==
    /\ t \in Task
    /\ CopyOK(t.row, given)
    /\ t.at \in {"checkSub", "createSub"} => t.row.cust
    /\ t.at \in Subscribed
          => t.row.sub # None

IInv ==
    /\ TypeOK
    /\ CopyOK(tenant, subs)
    /\ \A w \in Workers : TaskOK(task[w], subs)

(* The gateway forgets no subscription between the two states.             *)
Keeps(given, later) ==
    \A s \in Subs : given[s] # "none" => later[s] # "none"

-----------------------------------------------------------------------------
(* The row of a new tenant is good, and so is every column change that the *)
(* operations make to a good row.                                          *)
LEMMA SignedUpOK ==
    ASSUME NEW given PROVE CopyOK(SignedUp, given) /\ TaskOK(Idle, given)
BY BillingAssumption
   DEF SignedUp, CopyOK, Row, Plans, Statuses, Idle, TaskOK, Task, Steps

LEMMA OnPlanOK ==
    ASSUME NEW given, NEW r \in Row, CopyOK(r, given), NEW plan \in Plans
    PROVE  /\ CopyOK(OnPlan(r, plan), given)
           /\ OnPlan(r, plan).plan = plan
           /\ OnPlan(r, plan).sub = r.sub
           /\ OnPlan(r, plan).cust = r.cust
BY BillingAssumption DEF CopyOK, OnPlan, Row, Plans

LEMMA StatusOK ==
    ASSUME NEW given, NEW r \in Row, CopyOK(r, given),
           NEW status \in Statuses, NEW end \in Nat
    PROVE  /\ CopyOK([r EXCEPT !.status = status], given)
           /\ [r EXCEPT !.status = status].sub = r.sub
           /\ CopyOK([r EXCEPT !.trialEnd = end, !.status = status], given)
           /\ CopyOK(Cancelled(r), given)
           /\ CopyOK([Cancelled(r) EXCEPT !.sub = None], given)
BY DEF CopyOK, Row, Cancelled, Statuses

LEMMA CopyKept ==
    ASSUME NEW given, NEW later, Keeps(given, later), NEW r, CopyOK(r, given)
    PROVE  CopyOK(r, later)
BY DEF CopyOK, Keeps, Row

LEMMA TaskKept ==
    ASSUME NEW given, NEW later, Keeps(given, later), NEW t, TaskOK(t, given)
    PROVE  TaskOK(t, later)
BY CopyKept DEF TaskOK

-----------------------------------------------------------------------------
(* A step of worker w that leaves it with a good task leaves every worker  *)
(* with a good task.                                                       *)
LEMMA TaskStep ==
    ASSUME IInv, NEW w \in Workers, NEW t, Keeps(subs, subs'),
           task' = [task EXCEPT ![w] = t], TaskOK(t, subs')
    PROVE  task' \in [Workers -> Task] /\ \A v \in Workers : TaskOK(task'[v], subs')
  <1>1. /\ task \in [Workers -> Task]
        /\ \A v \in Workers : TaskOK(task[v], subs)
    BY DEF IInv, TypeOK
  <1>2. t \in Task
    BY DEF TaskOK
  <1>3. ASSUME NEW v \in Workers PROVE TaskOK(task'[v], subs')
    <2>1. TaskOK(task[v], subs')
      BY <1>1, TaskKept
    <2>. QED  BY <1>1, <2>1
  <1>. QED  BY <1>1, <1>2, <1>3

(* Moving on, with the copy as it is or with another good one.             *)
LEMMA MovedOn ==
    ASSUME NEW given, NEW t, TaskOK(t, given), NEW r, CopyOK(r, given),
           NEW step \in Steps,
           step \in {"checkSub", "createSub"} => r.cust,
           step \in Subscribed
              => r.sub # None
    PROVE  TaskOK([t EXCEPT !.at = step, !.row = r], given)
BY DEF TaskOK, Task, CopyOK

LEMMA MovedOnOld ==
    ASSUME NEW given, NEW t, TaskOK(t, given), NEW step \in Steps,
           step \in {"checkSub", "createSub"} => t.row.cust,
           step \in Subscribed
              => t.row.sub # None,
           NEW plan \in Plans
    PROVE  /\ TaskOK([t EXCEPT !.at = step], given)
           /\ TaskOK([t EXCEPT !.at = step, !.old = plan], given)
BY DEF TaskOK, Task, CopyOK

(* Begin keeps the invariant when the copy it makes is good.               *)
LEMMA BeginOK ==
    ASSUME IInv, UNCHANGED setting, NEW w \in Workers, NEW kind, NEW step \in Steps, NEW r,
           NEW plan \in Plans, Begin(w, kind, step, r, plan),
           CopyOK(r, subs),
           step \in {"checkSub", "createSub"} => r.cust,
           step \in Subscribed
              => r.sub # None
    PROVE  IInv'
  <1> DEFINE t == [kind |-> kind, at |-> step, row |-> r, plan |-> plan,
                   old |-> "trial"]
  <1>1. TaskOK(t, subs)
    <2>1. kind \in Ops
      BY DEF Begin, IInv, TypeOK, Setting
    <2>. QED  BY <2>1 DEF TaskOK, Task, CopyOK, Plans
  <1>2. task' = [task EXCEPT ![w] = t] /\ UNCHANGED <<db, remote, prorated, now>>
        /\ ops' = ops + 1
    BY DEF Begin
  <1>3. Keeps(subs, subs') /\ subs' = subs
    BY <1>2 DEF Keeps, remote
  <1> HIDE DEF t
  <1>4. task' \in [Workers -> Task] /\ \A v \in Workers : TaskOK(task'[v], subs')
    BY <1>1, <1>2, <1>3, TaskStep
  <1>. QED  BY <1>2, <1>3, <1>4 DEF IInv, TypeOK, db, remote

(* A step of w inside an operation keeps the invariant when the row it     *)
(* leaves in the table and the task it leaves with w are good.             *)
LEMMA StepOK ==
    ASSUME IInv, UNCHANGED setting, NEW w \in Workers, NEW t, task' = [task EXCEPT ![w] = t],
           Keeps(subs, subs'), TaskOK(t, subs'), CopyOK(tenant', subs'),
           dunned' \in SUBSET Subs, users' \in Int,
           subs' \in [Subs -> SubStatuses], billed' \in [Subs -> Plans],
           events' \in SUBSET Event, prorated' \in Int, moved' \in Int,
           charged' \in Nat,
           now' \in Nat, ops' \in Nat
    PROVE  IInv'
BY TaskStep DEF IInv, TypeOK, CopyOK

(* A step that no worker takes.                                            *)
LEMMA EnvironmentOK ==
    ASSUME IInv, UNCHANGED setting, UNCHANGED task,
           Keeps(subs, subs'), CopyOK(tenant', subs'),
           dunned' \in SUBSET Subs, users' \in Int,
           subs' \in [Subs -> SubStatuses], billed' \in [Subs -> Plans],
           events' \in SUBSET Event, prorated' \in Int, moved' \in Int,
           charged' \in Nat,
           now' \in Nat, ops' \in Nat
    PROVE  IInv'
BY TaskKept DEF IInv, TypeOK, CopyOK

-----------------------------------------------------------------------------
LEMMA InitOK == Init => IInv
  <1> SUFFICES ASSUME Init PROVE IInv
    OBVIOUS
  <1>1. tenant \in Row
    BY SignedUpOK DEF Init, CopyOK
  <1>2. Idle \in Task
    BY SignedUpOK DEF TaskOK
  <1>3. TypeOK
    BY <1>1, <1>2 DEF Init, TypeOK, SubStatuses, Plans
  <1>. QED  BY <1>3, SignedUpOK DEF Init, IInv

(* The operations of the customer and of the gateway's events.             *)
LEMMA BillingOK ==
    ASSUME IInv, UNCHANGED setting, NEW w \in Workers, Billing(w)
    PROVE  IInv'
  <1> DEFINE t == task[w]
  <1>1. /\ TypeOK /\ CopyOK(tenant, subs) /\ tenant \in Row
        /\ TaskOK(t, subs) /\ t \in Task /\ CopyOK(t.row, subs)
        /\ t.row \in Row /\ t.plan \in Plans /\ t.old \in Plans
        /\ task \in [Workers -> Task]
    BY DEF IInv, TypeOK, CopyOK, TaskOK, Task
  <1>2. Keeps(subs, subs)
    BY DEF Keeps
  <1>3. CASE Activate(w)
    <2> PICK plan \in PaidPlans :
          Begin(w, "activate",
                IF tenant.cust THEN "checkSub" ELSE "createCustomer",
                tenant, plan)
      BY <1>3 DEF Activate
    <2>. QED  BY <1>1, BeginOK DEF PaidPlans, Plans, Steps
  <1>4. CASE CreateCustomer(w)
    <2> DEFINE r == [t.row EXCEPT !.cust = TRUE]
    <2>1. CopyOK(r, subs) /\ r.cust
      BY <1>1 DEF CopyOK, Row
    <2>2. TaskOK([t EXCEPT !.at = "checkSub", !.row = r], subs)
      BY <1>1, <2>1, MovedOn DEF Steps
    <2>3. /\ task' = [task EXCEPT ![w] = [t EXCEPT !.at = "checkSub", !.row = r]]
          /\ tenant' = r /\ UNCHANGED <<dunned, users, remote, prorated, now, ops>>
      BY <1>4, <1>1 DEF CreateCustomer, At, ContinueWith
    <2>. QED  BY <1>1, <1>2, <2>1, <2>2, <2>3, StepOK DEF remote, TypeOK
  <1>5. CASE CheckSubscription(w)
    <2>1. /\ \/ task' = [task EXCEPT ![w] = Idle]
             \/ task' = [task EXCEPT ![w] = [t EXCEPT !.at = "createSub"]]
          /\ t.at = "checkSub"
          /\ UNCHANGED <<db, remote, prorated, now, ops>>
      BY <1>5, <1>1 DEF CheckSubscription, At, Continue, Finish
    <2>2. t.row.cust
      BY <1>1, <2>1 DEF TaskOK
    <2>3. TaskOK([t EXCEPT !.at = "createSub"], subs)
      BY <1>1, <2>2, MovedOnOld DEF Steps
    <2>. QED  BY <1>1, <1>2, <2>1, <2>3, SignedUpOK, StepOK
              DEF db, remote, TypeOK
  <1>6. CASE CreateSubscription(w)
    <2>1. t.at = "createSub" /\ t.row.cust
      BY <1>6, <1>1 DEF CreateSubscription, At, TaskOK
    <2> PICK s \in Subs :
          /\ subs[s] = "none"
          /\ subs' = [subs EXCEPT ![s] = "ACTIVE"]
          /\ billed' = [billed EXCEPT ![s] = t.plan]
          /\ ContinueWith(w, "save", Activated(t.row, s, t.plan))
      BY <1>6 DEF CreateSubscription
    <2>2. UNCHANGED <<db, events, charged, moved, prorated, now, ops>>
      BY <1>6 DEF CreateSubscription, At
    <2>3. Keeps(subs, subs') /\ subs' \in [Subs -> SubStatuses]
          /\ subs'[s] # "none"
      BY <1>1 DEF Keeps, TypeOK, SubStatuses
    <2> DEFINE q == OnPlan(t.row, t.plan)
               r == Activated(t.row, s, t.plan)
    <2>4. CopyOK(q, subs') /\ q \in Row /\ q.cust
      <3>1. CopyOK(q, subs) /\ q.cust
        BY <1>1, <2>1, OnPlanOK
      <3>. QED  BY <2>3, <3>1, CopyKept DEF CopyOK
    <2>5. r = [q EXCEPT !.sub = s, !.status = "ACTIVE"]
      BY DEF Activated
    <2>6. CopyOK(r, subs')
      <3> HIDE DEF q, r
      <3>. QED  BY <2>3, <2>4, <2>5 DEF CopyOK, Row, Statuses
    <2>7. TaskOK(t, subs') /\ CopyOK(tenant, subs')
      BY <1>1, <2>3, TaskKept, CopyKept
    <2>8. TaskOK([t EXCEPT !.at = "save", !.row = r], subs')
      BY <2>6, <2>7, MovedOn DEF Steps
    <2>9. task' = [task EXCEPT ![w] = [t EXCEPT !.at = "save", !.row = r]]
      BY <1>1 DEF ContinueWith
    <2>10. billed' \in [Subs -> Plans]
      BY <1>1 DEF TypeOK
    <2>. QED  BY <1>1, <2>2, <2>3, <2>7, <2>8, <2>9, <2>10, StepOK
              DEF db, TypeOK
  <1>7. CASE ChangePlan(w)
    <2> PICK plan \in PaidPlans :
          tenant.sub # None /\ Begin(w, "change", "getSub", tenant, plan)
      BY <1>7 DEF ChangePlan
    <2>. QED  BY <1>1, BeginOK DEF PaidPlans, Plans, Steps
  <1>8. CASE GetSubscription(w)
    <2> DEFINE s == t.row.sub
    <2>1. t.at = "getSub" /\ s # None /\ s \in Subs
      BY <1>8, <1>1 DEF GetSubscription, At, TaskOK, Row
    <2>2. billed[s] \in Plans
      BY <1>1, <2>1 DEF TypeOK
    <2>3. TaskOK([t EXCEPT !.at = "prorate", !.old = billed[s]], subs)
      BY <1>1, <2>1, <2>2, MovedOnOld DEF Steps
    <2>4. /\ task' = [task EXCEPT ![w] = [t EXCEPT !.at = "prorate",
                                                   !.old = billed[s]]]
          /\ UNCHANGED <<db, remote, prorated, now, ops>>
      BY <1>8, <1>1 DEF GetSubscription, At
    <2>. QED  BY <1>1, <1>2, <2>3, <2>4, StepOK DEF db, remote, TypeOK
  <1>9. CASE Prorate(w)
    <2>1. /\ t.at = "prorate" /\ t.row.sub # None
          /\ task' = [task EXCEPT ![w] = [t EXCEPT !.at = "charge"]]
          /\ UNCHANGED <<db, remote, now, ops>>
      BY <1>9, <1>1 DEF Prorate, At, TaskOK, Continue
    <2>2. prorated' \in Int
      BY <1>9, <1>1, BillingAssumption DEF Prorate, Amount, TypeOK
    <2>3. TaskOK([t EXCEPT !.at = "charge"], subs)
      BY <1>1, <2>1, MovedOnOld DEF Steps
    <2>. QED  BY <1>1, <1>2, <2>1, <2>2, <2>3, StepOK DEF db, remote, TypeOK
  <1>10. CASE UpdateSubscription(w)
    <2> DEFINE s == t.row.sub
               r == OnPlan(t.row, t.plan)
    <2>1. t.at = "updateSub" /\ s # None /\ s \in Subs
      BY <1>10, <1>1 DEF UpdateSubscription, At, TaskOK, Row
    <2>2. /\ task' = [task EXCEPT ![w] = [t EXCEPT !.at = "save", !.row = r]]
          /\ UNCHANGED <<db, subs, events, charged, prorated, now, ops>>
          /\ billed' = [billed EXCEPT ![s] = t.plan]
          /\ moved' = moved + Price[t.plan] - Price[billed[s]]
      BY <1>10, <1>1 DEF UpdateSubscription, At, ContinueWith
    <2>3. billed' \in [Subs -> Plans] /\ moved' \in Int
      BY <1>1, <2>1, <2>2, BillingAssumption DEF TypeOK
    <2>4. TaskOK([t EXCEPT !.at = "save", !.row = r], subs)
      BY <1>1, OnPlanOK, MovedOn DEF Steps
    <2>. QED  BY <1>1, <1>2, <2>2, <2>3, <2>4, StepOK DEF db, TypeOK
  <1>11. CASE Cancel(w)
    BY <1>1, <1>11, BeginOK DEF Cancel, Plans, Steps
  <1>12. CASE CancelSubscription(w)
    <2> DEFINE s == t.row.sub
               r == Cancelled(t.row)
    <2>1. t.at = "cancelSub" /\ s # None /\ s \in Subs
      BY <1>12, <1>1 DEF CancelSubscription, At, TaskOK, Row
    <2>2. /\ task' = [task EXCEPT ![w] = [t EXCEPT !.at = "save", !.row = r]]
          /\ UNCHANGED <<db, billed, events, charged, moved, prorated, now, ops>>
          /\ subs' = [subs EXCEPT ![s] = "CANCELLED"]
      BY <1>12, <1>1 DEF CancelSubscription, At, ContinueWith
    <2>3. Keeps(subs, subs') /\ subs' \in [Subs -> SubStatuses]
      BY <1>1, <2>2 DEF Keeps, TypeOK, SubStatuses
    <2>5. CopyOK(r, subs)
      BY <1>1, StatusOK DEF Statuses
    <2>6. CopyOK(r, subs') /\ TaskOK(t, subs') /\ CopyOK(tenant, subs')
      BY <1>1, <2>3, <2>5, CopyKept, TaskKept
    <2>7. TaskOK([t EXCEPT !.at = "save", !.row = r], subs')
      BY <2>6, MovedOn DEF Steps
    <2>. QED  BY <1>1, <2>2, <2>3, <2>6, <2>7, StepOK DEF db, TypeOK
  <1>13. CASE HandleEvent(w)
    <2> PICK e \in events :
          /\ e.sub = tenant.sub
          /\ PaymentReceived(w, e) \/ PaymentOverdue(w, e)
      BY <1>13 DEF HandleEvent
    <2>1. tenant.sub # None
      BY <1>1, BillingAssumption DEF TypeOK, Event
    <2>2. \A status \in Statuses : CopyOK([tenant EXCEPT !.status = status], subs)
                                /\ [tenant EXCEPT !.status = status].sub # None
      BY <1>1, <2>1, StatusOK
    <2>4. CASE PaymentReceived(w, e)
      BY <2>2, <2>4, BeginOK DEF PaymentReceived, Plans, Steps, Statuses
    <2>5. CASE PaymentOverdue(w, e)
      BY <2>2, <2>5, BeginOK DEF PaymentOverdue, Plans, Steps, Statuses
    <2>. QED  BY <2>4, <2>5
  <1>14. CASE CreateDunning(w)
    <2>1. /\ t.at = "dunning" /\ t.row.sub # None /\ t.row.sub \in Subs
          /\ task' = [task EXCEPT ![w] = [t EXCEPT !.at = "save"]]
          /\ dunned' = dunned \cup {t.row.sub}
          /\ UNCHANGED <<tenant, users, remote, prorated, now, ops>>
      BY <1>14, <1>1 DEF CreateDunning, At, TaskOK, Row, Continue
    <2>2. TaskOK([t EXCEPT !.at = "save"], subs)
      BY <1>1, <2>1, MovedOnOld DEF Steps, Plans
    <2>. QED  BY <1>1, <1>2, <2>1, <2>2, StepOK DEF remote, TypeOK
  <1>15. CASE Charge(w)
    <2>1. /\ t.at = "charge" /\ t.row.sub # None
          /\ task' = [task EXCEPT ![w] = [t EXCEPT !.at = "updateSub"]]
          /\ UNCHANGED <<db, subs, billed, events, moved, prorated, now, ops>>
      BY <1>15, <1>1 DEF Charge, At, TaskOK, Continue
    <2>2. charged' \in Nat
      <3> DEFINE amount == Amount(t)
      <3>1. amount \in Int
        BY <1>1, BillingAssumption DEF Amount
      <3>2. \/ amount < -MinCharge /\ charged' = charged - amount
            \/ charged' = charged
        BY <1>15 DEF Charge
      <3>3. charged \in Nat /\ MinCharge \in Nat
        BY <1>1, BillingAssumption DEF TypeOK
      <3> HIDE DEF amount
      <3>. QED  BY <3>1, <3>2, <3>3
    <2>3. TaskOK([t EXCEPT !.at = "updateSub"], subs)
      BY <1>1, <2>1, MovedOnOld DEF Steps
    <2>. QED  BY <1>1, <1>2, <2>1, <2>2, <2>3, StepOK DEF db, TypeOK
  <1>. QED  BY <1>3, <1>4, <1>5, <1>6, <1>7, <1>8, <1>9, <1>10, <1>11, <1>12,
               <1>13, <1>14, <1>15 DEF Billing

(* The trial job and the administrator.                                    *)
LEMMA AdministrationOK ==
    ASSUME IInv, UNCHANGED setting, NEW w \in Workers, Administration(w)
    PROVE  IInv'
  <1>1. /\ TypeOK /\ CopyOK(tenant, subs) /\ tenant \in Row
        /\ tenant.trialEnd \in Nat /\ now \in Nat
    BY DEF IInv, TypeOK, CopyOK, Row
  <1>2. /\ \A status \in Statuses : CopyOK([tenant EXCEPT !.status = status], subs)
        /\ CopyOK(Cancelled(tenant), subs)
        /\ \A plan \in Plans : CopyOK(OnPlan(tenant, plan), subs)
    BY <1>1, StatusOK, OnPlanOK DEF Statuses
  <1>3. CASE ExpireTrial(w)
    BY <1>2, <1>3, BeginOK DEF ExpireTrial, Statuses, Plans, Steps
  <1>4. CASE ActivateTenant(w)
    <2> PICK r \in {OnPlan(tenant, plan) : plan \in PaidPlans} \cup {tenant} :
          Begin(w, "adminActivate", "save", [r EXCEPT !.status = "ACTIVE"],
                "trial")
      BY <1>4 DEF ActivateTenant
    <2>1. CopyOK(r, subs) /\ r \in Row
      BY <1>1, <1>2 DEF PaidPlans, Plans, CopyOK
    <2>2. CopyOK([r EXCEPT !.status = "ACTIVE"], subs)
      BY <2>1, StatusOK DEF Statuses
    <2>. QED  BY <2>2, BeginOK DEF Plans, Steps
  <1>5. CASE UpdateTenantPlan(w)
    BY <1>2, <1>5, BeginOK DEF UpdateTenantPlan, Plans, Steps
  <1>6. CASE UpdateTenantStatus(w)
    <2> PICK status \in Statuses :
          Begin(w, "adminStatus", "save",
                IF status = "CANCELLED" THEN Cancelled(tenant)
                ELSE [tenant EXCEPT !.status = status], "trial")
      BY <1>6 DEF UpdateTenantStatus
    <2>1. CopyOK(IF status = "CANCELLED" THEN Cancelled(tenant)
                 ELSE [tenant EXCEPT !.status = status], subs)
      BY <1>2
    <2>. QED  BY <2>1, BeginOK DEF Plans, Steps
  <1>7. CASE ExtendTrial(w)
    <2> DEFINE base == IF tenant.trialEnd < now THEN now ELSE tenant.trialEnd
    <2>1. base + 1 \in Nat
      BY <1>1
    <2>2. CopyOK([tenant EXCEPT !.trialEnd = base + 1, !.status = "TRIAL"], subs)
      BY <1>1, <2>1, StatusOK DEF Statuses
    <2>3. Begin(w, "adminExtend", "save",
                [tenant EXCEPT !.trialEnd = base + 1, !.status = "TRIAL"], "trial")
      BY <1>7 DEF ExtendTrial
    <2>. QED  BY <2>2, <2>3, BeginOK DEF Plans, Steps
  <1>. QED  BY <1>3, <1>4, <1>5, <1>6, <1>7 DEF Administration

(* Save writes back what the worker carries; Fail drops it.                *)
LEMMA SaveOrFailOK ==
    ASSUME IInv, UNCHANGED setting, NEW w \in Workers, Save(w) \/ Fail(w)
    PROVE  IInv'
  <1>1. /\ TypeOK /\ CopyOK(tenant, subs) /\ TaskOK(task[w], subs)
        /\ CopyOK(task[w].row, subs) /\ Keeps(subs, subs)
    BY DEF IInv, TaskOK, Keeps
  <1>2. /\ task' = [task EXCEPT ![w] = Idle]
        /\ tenant' = task[w].row \/ tenant' = tenant
        /\ UNCHANGED <<dunned, users, remote, prorated, now, ops>>
    BY DEF Save, Fail, Finish, At, db
  <1>. QED  BY <1>1, <1>2, SignedUpOK, StepOK DEF remote, TypeOK

(* The gateway, the users and the clock.                                   *)
LEMMA OutsideOK ==
    ASSUME IInv, UNCHANGED setting, Environment
    PROVE  IInv'
  <1>1. /\ TypeOK /\ CopyOK(tenant, subs) /\ tenant \in Row /\ Keeps(subs, subs)
    BY DEF IInv, TypeOK, Keeps
  <1>2. ASSUME NEW s \in Subs, NEW status \in SubStatuses \ {"none"},
               NEW told \in SUBSET {"received", "overdue"},
               Move(s, status, told)
        PROVE  IInv'
    <2>1. /\ subs' = [subs EXCEPT ![s] = status]
          /\ events' = events \cup {[type |-> type, sub |-> s] : type \in told}
          /\ UNCHANGED <<db, billed, charged, moved, task, prorated, now, ops>>
      BY <1>2 DEF Move
    <2>2. Keeps(subs, subs') /\ subs' \in [Subs -> SubStatuses]
      BY <1>1, <2>1 DEF Keeps, TypeOK
    <2>3. events' \in SUBSET Event
      BY <1>1, <2>1 DEF TypeOK, Event
    <2>4. CopyOK(tenant, subs')
      BY <1>1, <2>2, CopyKept
    <2>. QED  BY <1>1, <2>1, <2>2, <2>3, <2>4, EnvironmentOK DEF db, TypeOK
  <1>3. ASSUME NEW s \in Subs,
               InvoiceOverdue(s) \/ InvoicePaid(s) \/ DeletedAtGateway(s)
        PROVE  IInv'
    BY <1>2, <1>3 DEF InvoiceOverdue, InvoicePaid, DeletedAtGateway, SubStatuses
  <1>4. ASSUME UserJoins \/ UserLeaves
        PROVE  IInv'
    <2>1. /\ users' \in Int /\ CopyOK(tenant', subs)
          /\ UNCHANGED <<dunned, remote, task, prorated, now, ops>>
      BY <1>1, <1>4 DEF UserJoins, UserLeaves, TypeOK, CopyOK, Row
    <2>. QED  BY <1>1, <2>1, EnvironmentOK DEF remote, TypeOK
  <1>5. CASE Tick
    BY <1>1, <1>5, EnvironmentOK DEF Tick, db, remote, TypeOK
  <1>. QED  BY <1>3, <1>4, <1>5 DEF Environment

LEMMA SpecIInv == Spec => []IInv
  <1>1. IInv /\ [Next]_vars => IInv'
    <2> SUFFICES ASSUME IInv, [Next]_vars PROVE IInv'
      OBVIOUS
    <2>1. CASE Next
      BY <2>1, BillingOK, AdministrationOK, SaveOrFailOK, OutsideOK DEF Next
    <2>2. CASE UNCHANGED vars
      BY <2>2, EnvironmentOK
         DEF IInv, TypeOK, CopyOK, Keeps, vars, db, remote
    <2>. QED  BY <2>1, <2>2
  <1>. QED  BY InitOK, <1>1, PTL DEF Spec

-----------------------------------------------------------------------------
(* The types of TenantBilling.                                             *)
THEOREM TypeCorrect == Spec => []TypeOK
  <1>1. IInv => TypeOK
    BY DEF IInv
  <1>. QED  BY SpecIInv, <1>1, PTL

(* However many workers overwrite each other's rows, the user limit that   *)
(* is stored, or about to be, is the one of the plan beside it.            *)
THEOREM LimitFollowsPlan == Spec => []SeatsMatchPlan
  <1>1. IInv => SeatsMatchPlan
    BY DEF IInv, TaskOK, CopyOK, SeatsMatchPlan, Copies
  <1>. QED  BY SpecIInv, <1>1, PTL

(* A subscription id in any copy of the row is one the gateway gave to a   *)
(* customer it knows, whatever failed in between.                          *)
THEOREM SubscriptionExists == Spec => []SubscriptionIsReal
  <1>1. IInv => SubscriptionIsReal
    BY DEF IInv, TaskOK, CopyOK, SubscriptionIsReal, Copies
  <1>. QED  BY SpecIInv, <1>1, PTL

-----------------------------------------------------------------------------
(* No administrator's hand.                                                *)
Unattended == setting.ops \cap AdminOps = {}

(* A copy r is let in on a subscription to a paid plan, and its reminder   *)
(* is on record.                                                           *)
Paying(r) ==
    /\ r.sub # None => r.plan \in PaidPlans
    /\ r.status \in {"ACTIVE", "PENDING_PAYMENT"} => r.sub # None
Reminded(r, reminders) == r.status = "PENDING_PAYMENT" => r.sub \in reminders

(* The steps of ActivatePlan and ChangePlan up to the new plan.            *)
Choosing == {"createCustomer", "checkSub", "createSub", "getSub", "prorate",
             "charge", "updateSub"}

(* The reminder precedes the row: only a copy about to record it lacks it. *)
Billed(t, reminders) ==
    /\ Paying(t.row)
    /\ t.at # "dunning" => Reminded(t.row, reminders)
    /\ t.at \in Choosing => t.plan \in PaidPlans

BilledInv ==
    Unattended =>
        /\ Paying(tenant) /\ Reminded(tenant, dunned)
        /\ \A w \in Workers : Billed(task[w], dunned)

(* One operation after the other, and none fails.                          *)
Sound == setting.serial /\ ~setting.faults

(* In a setting (how), a row agrees with the gateway: its plan is the one  *)
(* billed, and no other subscription is active.                            *)
Settled(how, r, given, paid) ==
    /\ how.ops \cap AdminOps = {} => (r.sub # None => r.plan = paid[r.sub])
    /\ how.moves = {} => \A s \in Subs : given[s] = "ACTIVE" => s = r.sub

(* What holds in the middle of an operation: the copy agrees with the      *)
(* gateway, the table still does until the operation is about to save, the *)
(* old price is the one billed, and the credits exceed the changes by the  *)
(* one that is about to be made (excess).                                  *)
Right(how, t, r, given, paid, excess) ==
    /\ Settled(how, t.row, given, paid)
    /\ t.at # "save" => r.sub = t.row.sub /\ r.plan = t.row.plan
    /\ t.at \in {"prorate", "charge", "updateSub"} => t.old = paid[t.row.sub]
    /\ excess = IF t.at \in {"charge", "updateSub"} THEN Amount(t) ELSE 0
    /\ t.at = "createSub" =>
          (how.moves = {} => \A s \in Subs : given[s] # "ACTIVE")

SoundInv ==
    Sound =>
        /\ OneAtATime
        /\ \A w \in Workers : task[w].at = "idle" => task[w] = Idle
        /\ Quiet => Settled(setting, tenant, subs, billed) /\ prorated = moved
        /\ \A w \in Workers :
              task[w] # Idle =>
                 Right(setting, task[w], tenant, subs, billed, prorated - moved)

-----------------------------------------------------------------------------
(* Reminders are never taken back, so a copy stays as good as it was.      *)
LEMMA BilledStep ==
    ASSUME IInv, BilledInv, UNCHANGED setting, NEW w \in Workers, NEW t,
           task' = [task EXCEPT ![w] = t], dunned \subseteq dunned',
           Unattended =>
               /\ Paying(tenant') /\ Reminded(tenant', dunned')
               /\ Billed(t, dunned')
    PROVE  BilledInv'
  <1>1. Unattended' <=> Unattended
    BY DEF Unattended
  <1>2. task \in [Workers -> Task]
    BY DEF IInv, TypeOK
  <1>3. ASSUME Unattended, NEW v \in Workers PROVE Billed(task'[v], dunned')
    <2>1. Billed(task[v], dunned)
      BY <1>3 DEF BilledInv
    <2>2. Billed(task[v], dunned')
      BY <2>1 DEF Billed, Reminded
    <2>. QED  BY <1>2, <1>3, <2>2
  <1>. QED  BY <1>1, <1>3 DEF BilledInv

LEMMA BilledBegin ==
    ASSUME IInv, BilledInv, UNCHANGED setting, NEW w \in Workers, NEW kind,
           NEW step, NEW r, NEW plan, Begin(w, kind, step, r, plan),
           Unattended =>
               /\ Paying(r)
               /\ step # "dunning" => Reminded(r, dunned)
               /\ step \in Choosing => plan \in PaidPlans
    PROVE  BilledInv'
  <1> DEFINE t == [kind |-> kind, at |-> step, row |-> r, plan |-> plan,
                   old |-> "trial"]
  <1>1. task' = [task EXCEPT ![w] = t] /\ UNCHANGED <<db, remote>>
    BY DEF Begin
  <1>2. t.row = r /\ t.at = step /\ t.plan = plan
    OBVIOUS
  <1> HIDE DEF t
  <1>3. Unattended => Billed(t, dunned)
    BY <1>2 DEF Billed
  <1>. QED  BY <1>1, <1>3, BilledStep DEF db, remote, BilledInv

(* What the operations make of a good copy.                                *)
LEMMA PayingRows ==
    ASSUME NEW r \in Row, Paying(r), NEW reminders, Reminded(r, reminders)
    PROVE  /\ \A status \in Statuses \ {"ACTIVE", "PENDING_PAYMENT"} :
                 /\ Paying([r EXCEPT !.status = status])
                 /\ Reminded([r EXCEPT !.status = status], reminders)
           /\ r.sub # None => \A status \in Statuses :
                 Paying([r EXCEPT !.status = status])
           /\ Reminded([r EXCEPT !.status = "ACTIVE"], reminders)
           /\ Paying(Cancelled(r)) /\ Reminded(Cancelled(r), reminders)
           /\ Paying([Cancelled(r) EXCEPT !.sub = None])
           /\ Reminded([Cancelled(r) EXCEPT !.sub = None], reminders)
           /\ Paying([r EXCEPT !.cust = TRUE])
           /\ Reminded([r EXCEPT !.cust = TRUE], reminders)
BY DEF Paying, Reminded, Row, Cancelled, Statuses

LEMMA PayingPlans ==
    ASSUME NEW r \in Row, NEW plan \in PaidPlans,
           NEW reminders, NEW s \in Subs
    PROVE  /\ Paying(Activated(r, s, plan))
           /\ Reminded(Activated(r, s, plan), reminders)
           /\ Paying(r) => Paying(OnPlan(r, plan))
           /\ Reminded(r, reminders) => Reminded(OnPlan(r, plan), reminders)
BY BillingAssumption DEF Paying, Reminded, Row, Activated, OnPlan

LEMMA IdleBilled ==
    ASSUME NEW reminders PROVE Billed(Idle, reminders)
BY DEF Billed, Idle, SignedUp, Paying, Reminded, Choosing

LEMMA BilledInit == Init => BilledInv
BY IdleBilled DEF Init, BilledInv, SignedUp, Paying, Reminded

LEMMA BilledBilling ==
    ASSUME IInv, BilledInv, UNCHANGED setting, NEW w \in Workers, Billing(w)
    PROVE  BilledInv'
  <1> DEFINE t == task[w]
  <1>1. /\ tenant \in Row /\ t \in Task /\ t.row \in Row
        /\ task \in [Workers -> Task] /\ TaskOK(t, subs)
    BY DEF IInv, TypeOK, Task
  <1>2. Unattended =>
            /\ Paying(tenant) /\ Reminded(tenant, dunned)
            /\ Paying(t.row) /\ (t.at # "dunning" => Reminded(t.row, dunned))
            /\ t.at \in Choosing => t.plan \in PaidPlans
    BY DEF BilledInv, Billed
  <1>3. ASSUME NEW step \in Steps, NEW r, t.at # "dunning",
               task' = [task EXCEPT ![w] = [t EXCEPT !.at = step, !.row = r]],
               UNCHANGED <<tenant, dunned>>,
               Unattended =>
                   /\ Paying(r) /\ Reminded(r, dunned)
                   /\ step \in Choosing => t.at \in Choosing
        PROVE  BilledInv'
    <2> DEFINE q == [t EXCEPT !.at = step, !.row = r]
    <2>1. q.row = r /\ q.at = step /\ q.plan = t.plan
      BY <1>1 DEF Task
    <2> HIDE DEF q
    <2>2. Unattended => Billed(q, dunned)
      BY <1>2, <1>3, <2>1 DEF Billed
    <2>. QED  BY <1>2, <1>3, <2>2, BilledStep DEF q
  <1>4. CASE Activate(w)
    <2> PICK plan \in PaidPlans :
          Begin(w, "activate",
                IF tenant.cust THEN "checkSub" ELSE "createCustomer",
                tenant, plan)
      BY <1>4 DEF Activate
    <2>. QED  BY <1>2, BilledBegin
  <1>5. CASE CreateCustomer(w)
    <2> DEFINE r == [t.row EXCEPT !.cust = TRUE]
               q == [t EXCEPT !.at = "checkSub", !.row = r]
    <2>1. /\ t.at = "createCustomer" /\ task' = [task EXCEPT ![w] = q]
          /\ tenant' = r /\ UNCHANGED <<dunned, remote>>
      BY <1>5, <1>1 DEF CreateCustomer, At, ContinueWith
    <2>2. q.row = r /\ q.at = "checkSub" /\ q.plan = t.plan
      BY <1>1 DEF Task
    <2>3. Unattended => Paying(r) /\ Reminded(r, dunned)
      BY <1>1, <1>2, <2>1, PayingRows
    <2> HIDE DEF q, r
    <2>4. Unattended => Billed(q, dunned)
      BY <1>2, <2>1, <2>2, <2>3 DEF Billed, Choosing
    <2>. QED  BY <1>2, <2>1, <2>3, <2>4, BilledStep DEF remote
  <1>6. CASE CheckSubscription(w)
    <2>1. /\ \/ task' = [task EXCEPT ![w] = Idle]
             \/ task' = [task EXCEPT ![w] = [t EXCEPT !.at = "createSub"]]
          /\ t.at = "checkSub" /\ UNCHANGED <<db, remote>>
      BY <1>6, <1>1 DEF CheckSubscription, At, Continue, Finish
    <2> DEFINE q == [t EXCEPT !.at = "createSub"]
    <2>2. q.row = t.row /\ q.at = "createSub" /\ q.plan = t.plan
      BY <1>1 DEF Task
    <2> HIDE DEF q
    <2>3. Unattended => Billed(q, dunned)
      BY <1>2, <2>1, <2>2 DEF Billed, Choosing
    <2>. QED  BY <1>2, <2>1, <2>3, IdleBilled, BilledStep DEF db, remote, q
  <1>7. CASE CreateSubscription(w)
    <2> PICK s \in Subs :
          task' = [task EXCEPT ![w] = [t EXCEPT !.at = "save",
                                   !.row = Activated(t.row, s, t.plan)]]
      BY <1>7, <1>1 DEF CreateSubscription, ContinueWith
    <2>1. t.at = "createSub" /\ UNCHANGED <<db, events>>
      BY <1>7 DEF CreateSubscription, At
    <2>2. Unattended => /\ Paying(Activated(t.row, s, t.plan))
                        /\ Reminded(Activated(t.row, s, t.plan), dunned)
      BY <1>1, <1>2, <2>1, PayingPlans DEF Choosing
    <2>. QED  BY <1>2, <1>3, <2>1, <2>2 DEF db, Steps, Choosing
  <1>8. CASE ChangePlan(w)
    <2> PICK plan \in PaidPlans : Begin(w, "change", "getSub", tenant, plan)
      BY <1>8 DEF ChangePlan
    <2>. QED  BY <1>2, BilledBegin
  <1>9. CASE GetSubscription(w)
    <2> DEFINE q == [t EXCEPT !.at = "prorate", !.old = billed[t.row.sub]]
    <2>1. /\ t.at = "getSub" /\ task' = [task EXCEPT ![w] = q]
          /\ UNCHANGED <<db, remote>>
      BY <1>9, <1>1 DEF GetSubscription, At
    <2>2. q.row = t.row /\ q.at = "prorate" /\ q.plan = t.plan
      BY <1>1 DEF Task
    <2> HIDE DEF q
    <2>3. Unattended => Billed(q, dunned)
      BY <1>2, <2>1, <2>2 DEF Billed, Choosing
    <2>. QED  BY <1>2, <2>1, <2>3, BilledStep DEF db, remote
  <1>10. ASSUME Prorate(w) \/ Charge(w) PROVE BilledInv'
    <2> PICK step \in {"charge", "updateSub"} :
          task' = [task EXCEPT ![w] = [t EXCEPT !.at = step]]
      BY <1>10, <1>1 DEF Prorate, Charge, Continue
    <2> DEFINE q == [t EXCEPT !.at = step]
    <2>1. /\ t.at \in {"prorate", "charge"}
          /\ UNCHANGED <<db, events>>
      BY <1>10, <1>1 DEF Prorate, Charge, At, remote
    <2>2. q.row = t.row /\ q.at = step /\ q.plan = t.plan
      BY <1>1 DEF Task
    <2> HIDE DEF q
    <2>3. Unattended => Billed(q, dunned)
      BY <1>2, <2>1, <2>2 DEF Billed, Choosing
    <2>. QED  BY <1>2, <2>1, <2>3, BilledStep DEF db, q
  <1>11. CASE UpdateSubscription(w)
    <2>1. /\ t.at = "updateSub" /\ UNCHANGED <<db, events>>
          /\ task' = [task EXCEPT ![w] = [t EXCEPT !.at = "save",
                                          !.row = OnPlan(t.row, t.plan)]]
      BY <1>11, <1>1 DEF UpdateSubscription, At, ContinueWith
    <2>2. Unattended => /\ Paying(OnPlan(t.row, t.plan))
                        /\ Reminded(OnPlan(t.row, t.plan), dunned)
      <3> SUFFICES ASSUME Unattended
                   PROVE /\ Paying(OnPlan(t.row, t.plan))
                         /\ Reminded(OnPlan(t.row, t.plan), dunned)
        OBVIOUS
      <3>1. t.row.sub \in Subs
        BY <1>1, <2>1 DEF TaskOK, Row
      <3>. QED  BY <1>1, <1>2, <2>1, <3>1, PayingPlans DEF Choosing
    <2>. QED  BY <1>2, <1>3, <2>1, <2>2 DEF db, Steps, Choosing
  <1>12. CASE Cancel(w)
    <2>1. Begin(w, "cancel", "cancelSub", tenant, "trial")
      BY <1>12 DEF Cancel
    <2>. QED  BY <1>2, <2>1, BilledBegin DEF Choosing
  <1>13. CASE CancelSubscription(w)
    <2>1. /\ t.at = "cancelSub" /\ UNCHANGED db
          /\ task' = [task EXCEPT ![w] = [t EXCEPT !.at = "save",
                                          !.row = Cancelled(t.row)]]
      BY <1>13, <1>1 DEF CancelSubscription, At, ContinueWith
    <2>2. Unattended => Paying(Cancelled(t.row)) /\ Reminded(Cancelled(t.row), dunned)
      BY <1>1, <1>2, <2>1, PayingRows
    <2>. QED  BY <1>3, <2>1, <2>2 DEF db, Steps, Choosing
  <1>14. CASE HandleEvent(w)
    <2> PICK e \in events :
          /\ e.sub = tenant.sub
          /\ PaymentReceived(w, e) \/ PaymentOverdue(w, e)
      BY <1>14 DEF HandleEvent
    <2>1. tenant.sub # None
      BY BillingAssumption DEF IInv, TypeOK, Event
    <2>2. Unattended =>
            /\ \A status \in Statuses : Paying([tenant EXCEPT !.status = status])
            /\ Reminded([tenant EXCEPT !.status = "ACTIVE"], dunned)
      BY <1>1, <1>2, <2>1, PayingRows
    <2>3. CASE PaymentReceived(w, e)
      BY <2>2, <2>3, BilledBegin DEF PaymentReceived, Statuses, Choosing
    <2>4. CASE PaymentOverdue(w, e)
      BY <2>2, <2>4, BilledBegin DEF PaymentOverdue, Statuses, Choosing
    <2>. QED  BY <2>3, <2>4
  <1>15. CASE CreateDunning(w)
    <2> DEFINE q == [t EXCEPT !.at = "save"]
    <2>1. /\ t.at = "dunning" /\ task' = [task EXCEPT ![w] = q]
          /\ dunned' = dunned \cup {t.row.sub}
          /\ UNCHANGED <<tenant, remote>>
      BY <1>15, <1>1 DEF CreateDunning, At, Continue
    <2>2. q.row = t.row /\ q.at = "save"
      BY <1>1 DEF Task
    <2> HIDE DEF q
    <2>3. Unattended => Billed(q, dunned') /\ Reminded(tenant', dunned')
      BY <1>2, <2>1, <2>2 DEF Billed, Reminded, Choosing
    <2>. QED  BY <1>2, <2>1, <2>3, BilledStep DEF remote
  <1>. QED  BY <1>4, <1>5, <1>6, <1>7, <1>8, <1>9, <1>10, <1>11, <1>12,
               <1>13, <1>14, <1>15 DEF Billing

(* An unattended tenant sees the trial job only.                           *)
LEMMA BilledAdministration ==
    ASSUME IInv, BilledInv, UNCHANGED setting, NEW w \in Workers,
           Administration(w)
    PROVE  BilledInv'
  <1>1. tenant \in Row
    BY DEF IInv, TypeOK
  <1>2. Unattended => Paying(tenant) /\ Reminded(tenant, dunned)
    BY DEF BilledInv
  <1>3. CASE ExpireTrial(w)
    <2>1. Unattended => /\ Paying([tenant EXCEPT !.status = "SUSPENDED"])
                        /\ Reminded([tenant EXCEPT !.status = "SUSPENDED"], dunned)
      BY <1>1, <1>2, PayingRows DEF Statuses
    <2>2. Begin(w, "expireTrials", "save",
                [tenant EXCEPT !.status = "SUSPENDED"], "trial")
      BY <1>3 DEF ExpireTrial
    <2>. QED  BY <2>1, <2>2, BilledBegin DEF Choosing
  <1>4. ASSUME NEW kind \in AdminOps, NEW step, NEW r, NEW plan,
               Begin(w, kind, step, r, plan)
        PROVE  BilledInv'
    <2>1. ~Unattended
      BY <1>4 DEF Begin, Unattended
    <2>. QED  BY <1>4, <2>1, BilledBegin
  <1>5. CASE ActivateTenant(w)
    BY <1>4, <1>5 DEF ActivateTenant, AdminOps
  <1>6. CASE UpdateTenantPlan(w)
    BY <1>4, <1>6 DEF UpdateTenantPlan, AdminOps
  <1>7. CASE UpdateTenantStatus(w)
    BY <1>4, <1>7 DEF UpdateTenantStatus, AdminOps
  <1>8. CASE ExtendTrial(w)
    BY <1>4, <1>8 DEF ExtendTrial, AdminOps
  <1>. QED  BY <1>3, <1>5, <1>6, <1>7, <1>8 DEF Administration

LEMMA BilledRest ==
    ASSUME IInv, BilledInv, UNCHANGED setting
    PROVE  /\ \A w \in Workers : Save(w) \/ Fail(w) => BilledInv'
           /\ Environment => BilledInv'
  <1>1. ASSUME NEW w \in Workers, Save(w) \/ Fail(w) PROVE BilledInv'
    <2>1. /\ task' = [task EXCEPT ![w] = Idle]
          /\ \/ tenant' = tenant
             \/ tenant' = task[w].row /\ task[w].at = "save"
          /\ UNCHANGED <<dunned, remote>>
      BY <1>1 DEF Save, Fail, Finish, At, db
    <2>2. Unattended => /\ Paying(tenant') /\ Reminded(tenant', dunned')
      BY <2>1 DEF BilledInv, Billed, remote
    <2>. QED  BY <2>1, <2>2, IdleBilled, BilledStep
  <1>2. ASSUME UNCHANGED <<dunned, task>>,
               Unattended => Paying(tenant') /\ Reminded(tenant', dunned)
        PROVE  BilledInv'
    BY <1>2 DEF BilledInv, Unattended
  <1>3. ASSUME NEW s, NEW status, NEW told, Move(s, status, told)
        PROVE  BilledInv'
    BY <1>2, <1>3 DEF Move, db, BilledInv
  <1>4. ASSUME NEW s \in Subs,
               InvoiceOverdue(s) \/ InvoicePaid(s) \/ DeletedAtGateway(s)
        PROVE  BilledInv'
    BY <1>3, <1>4 DEF InvoiceOverdue, InvoicePaid, DeletedAtGateway
  <1>5. ASSUME UserJoins \/ UserLeaves PROVE BilledInv'
    <2>1. /\ UNCHANGED <<dunned, task, events>>
          /\ tenant'.status = tenant.status /\ tenant'.sub = tenant.sub
          /\ tenant'.plan = tenant.plan
      BY <1>5 DEF UserJoins, UserLeaves, remote, IInv, TypeOK, Row
    <2>2. Unattended => Paying(tenant') /\ Reminded(tenant', dunned)
      BY <2>1 DEF BilledInv, Paying, Reminded
    <2>. QED  BY <1>2, <2>1, <2>2 DEF BilledInv
  <1>6. CASE Tick
    BY <1>2, <1>6 DEF Tick, db, remote, BilledInv
  <1>7. Environment => BilledInv'
    BY <1>4, <1>5, <1>6 DEF Environment
  <1>. QED  BY <1>1, <1>7

(* Without an administrator, whatever races and fails, tenants are let in  *)
(* on a paid subscription, and those who owe have been reminded.           *)
THEOREM CustomersPay == Spec => []CustomersAreBilled
  <1>1. IInv /\ BilledInv /\ [Next]_vars => BilledInv'
    <2> SUFFICES ASSUME IInv, BilledInv, [Next]_vars PROVE BilledInv'
      OBVIOUS
    <2>1. CASE Next
      BY <2>1, BilledBilling, BilledAdministration, BilledRest DEF Next
    <2>2. CASE UNCHANGED vars
      BY <2>2 DEF BilledInv, Unattended, vars, db, remote
    <2>. QED  BY <2>1, <2>2
  <1>2. BilledInv => CustomersAreBilled
    BY DEF BilledInv, Billed, Paying, Reminded, Unattended, CustomersAreBilled,
           ActiveIsSubscribed, PendingWasDunned, Copies
  <1>. QED  BY SpecIInv, BilledInit, <1>1, <1>2, PTL DEF Spec

-----------------------------------------------------------------------------
(* One operation after the other.  The other workers are idle, so that the *)
(* invariant after a step of w is about w only.                            *)
LEMMA SoundStep ==
    ASSUME IInv, SoundInv, UNCHANGED setting, setting.serial => OneAtATime',
           NEW w \in Workers, NEW t, task' = [task EXCEPT ![w] = t],
           task[w] # Idle \/ t # Idle,
           Sound =>
               /\ t.at = "idle" => t = Idle
               /\ t = Idle => /\ Settled(setting, tenant', subs', billed')
                              /\ prorated' = moved'
               /\ t # Idle => Right(setting, t, tenant', subs', billed',
                                    prorated' - moved')
    PROVE  SoundInv'
  <1> SUFFICES ASSUME Sound PROVE SoundInv'
    BY DEF SoundInv, Sound
  <1>1. /\ task \in [Workers -> Task] /\ task'[w] = t
        /\ \A v \in Workers \ {w} : task'[v] = task[v]
    BY DEF IInv, TypeOK
  <1>2. OneAtATime /\ OneAtATime'
    BY DEF Sound, SoundInv
  <1>3. \A v \in Workers \ {w} : task'[v] = Idle
    BY <1>1, <1>2 DEF OneAtATime
  <1>4. \A v \in Workers : task'[v].at = "idle" => task'[v] = Idle
    BY <1>1, <1>3
  <1>5. Quiet' => t = Idle
    BY <1>1 DEF Quiet
  <1>6. ASSUME NEW v \in Workers, task'[v] # Idle
        PROVE  Right(setting, task'[v], tenant', subs', billed',
                     prorated' - moved')
    BY <1>1, <1>3, <1>6
  <1>. QED  BY <1>2, <1>4, <1>5, <1>6 DEF SoundInv

(* An operation begins when nothing else is in progress.                   *)
LEMMA SoundBegin ==
    ASSUME IInv, SoundInv, UNCHANGED setting, setting.serial => OneAtATime',
           NEW w \in Workers, NEW kind, NEW step, NEW r, NEW plan,
           Begin(w, kind, step, r, plan),
           step \notin {"idle", "createSub", "prorate", "charge", "updateSub"},
           Sound =>
              (Settled(setting, tenant, subs, billed) =>
                 /\ Settled(setting, r, subs, billed)
                 /\ step # "save" => tenant.sub = r.sub /\ tenant.plan = r.plan)
    PROVE  SoundInv'
  <1> DEFINE t == [kind |-> kind, at |-> step, row |-> r, plan |-> plan,
                   old |-> "trial"]
  <1>1. /\ task[w].at = "idle" /\ task' = [task EXCEPT ![w] = t]
        /\ UNCHANGED <<db, remote, prorated, now>>
    BY DEF Begin
  <1>2. t.row = r /\ t.at = step /\ t # Idle
    BY DEF Idle
  <1> HIDE DEF t
  <1>3. task \in [Workers -> Task] /\ prorated \in Int /\ moved \in Int
    BY DEF IInv, TypeOK
  <1>4. ASSUME Sound PROVE Quiet
    <2>1. OneAtATime' /\ task[w] = Idle
      BY <1>1, <1>4 DEF Sound, SoundInv
    <2>2. \A v \in Workers \ {w} : task[v] = Idle
      BY <1>1, <1>2, <1>3, <2>1 DEF OneAtATime
    <2>. QED  BY <2>1, <2>2 DEF Quiet
  <1>5. Sound => /\ Settled(setting, tenant, subs, billed)
                 /\ prorated - moved = 0
    BY <1>3, <1>4 DEF SoundInv
  <1>6. Sound => Right(setting, t, tenant, subs, billed, prorated - moved)
    BY <1>2, <1>5 DEF Right
  <1>. QED  BY <1>1, <1>2, <1>5, <1>6, SoundStep DEF db, remote

(* Settled looks at the subscription and the plan of a row.                *)
LEMMA SettledAlike ==
    ASSUME NEW how, NEW given, NEW paid, NEW r, NEW q, q.sub = r.sub,
           q.plan = r.plan, Settled(how, r, given, paid)
    PROVE  Settled(how, q, given, paid)
BY DEF Settled

LEMMA SoundInit == Init => SoundInv
BY BillingAssumption
   DEF Init, SoundInv, OneAtATime, Idle, Settled, SignedUp

(* ActivatePlan.                                                           *)
LEMMA SoundActivation ==
    ASSUME IInv, SoundInv, UNCHANGED setting, setting.serial => OneAtATime',
           NEW w \in Workers,
           \/ Activate(w) \/ CreateCustomer(w) \/ CheckSubscription(w)
           \/ CreateSubscription(w)
    PROVE  SoundInv'
  <1> DEFINE t == task[w]
  <1>1. /\ t \in Task /\ t.row \in Row /\ task \in [Workers -> Task]
        /\ tenant \in Row /\ subs \in [Subs -> SubStatuses]
        /\ billed \in [Subs -> Plans] /\ events \in SUBSET Event
        /\ prorated \in Int /\ moved \in Int
    BY DEF IInv, TypeOK, Task
  <1>2. ASSUME Sound, t # Idle
        PROVE  Right(setting, t, tenant, subs, billed, prorated - moved)
    BY <1>2 DEF SoundInv
  <1>3. ASSUME NEW step, t.at = step, step # "idle" PROVE t # Idle
    BY <1>3 DEF Idle
  <1>4. CASE Activate(w)
    <2> PICK plan \in PaidPlans :
          Begin(w, "activate",
                IF tenant.cust THEN "checkSub" ELSE "createCustomer",
                tenant, plan)
      BY <1>4 DEF Activate
    <2>. QED  BY SoundBegin
  <1>5. CASE CreateCustomer(w)
    <2> DEFINE r == [t.row EXCEPT !.cust = TRUE]
               q == [t EXCEPT !.at = "checkSub", !.row = r]
    <2>1. /\ t.at = "createCustomer" /\ task' = [task EXCEPT ![w] = q]
          /\ tenant' = r /\ UNCHANGED <<remote, prorated>>
      BY <1>5, <1>1 DEF CreateCustomer, At, ContinueWith
    <2>2. /\ q.row = r /\ q.at = "checkSub" /\ r.sub = t.row.sub
          /\ r.plan = t.row.plan
      BY <1>1 DEF Task, Row
    <2> HIDE DEF q, r
    <2>3. t # Idle /\ q # Idle
      BY <2>1, <2>2 DEF Idle
    <2>4. Sound => Right(setting, q, r, subs, billed, prorated - moved)
      BY <1>2, <2>1, <2>2, <2>3, SettledAlike DEF Right
    <2>. QED  BY <1>2, <2>1, <2>2, <2>3, <2>4, SoundStep DEF remote
  <1>6. CASE CheckSubscription(w)
    <2> DEFINE q == [t EXCEPT !.at = "createSub"]
               s == t.row.sub
    <2>1. /\ t.at = "checkSub" /\ UNCHANGED <<db, remote, prorated>>
          /\ \/ task' = [task EXCEPT ![w] = Idle]
             \/ /\ task' = [task EXCEPT ![w] = q]
                /\ s = None \/ subs[s] # "ACTIVE"
      BY <1>6, <1>1 DEF CheckSubscription, At, Continue, Finish
    <2>2. q.row = t.row /\ q.at = "createSub"
      BY <1>1 DEF Task
    <2> HIDE DEF q
    <2>3. t # Idle /\ q # Idle
      BY <2>1, <2>2 DEF Idle
    <2>4. CASE task' = [task EXCEPT ![w] = Idle]
      <3>1. Sound => Settled(setting, tenant, subs, billed) /\ prorated = moved
        BY <1>1, <1>2, <2>1, <2>3, SettledAlike DEF Right
      <3>. QED  BY <1>2, <2>1, <2>3, <2>4, <3>1, SoundStep DEF db, remote
    <2>5. CASE /\ task' = [task EXCEPT ![w] = q]
               /\ s = None \/ subs[s] # "ACTIVE"
      <3>1. ASSUME Sound, setting.moves = {}
            PROVE  \A x \in Subs : subs[x] # "ACTIVE"
        BY <1>2, <2>3, <2>5, <3>1, BillingAssumption DEF Right, Settled
      <3>2. Sound => Right(setting, q, tenant, subs, billed, prorated - moved)
        BY <1>2, <2>1, <2>2, <2>3, <3>1 DEF Right
      <3>. QED  BY <1>2, <2>1, <2>2, <2>3, <2>5, <3>2, SoundStep
                DEF db, remote
    <2>. QED  BY <2>1, <2>4, <2>5
  <1>7. CASE CreateSubscription(w)
    <2> PICK s \in Subs :
          /\ subs[s] = "none"
          /\ subs' = [subs EXCEPT ![s] = "ACTIVE"]
          /\ billed' = [billed EXCEPT ![s] = t.plan]
          /\ ContinueWith(w, "save", Activated(t.row, s, t.plan))
      BY <1>7 DEF CreateSubscription
    <2> DEFINE r == Activated(t.row, s, t.plan)
               q == [t EXCEPT !.at = "save", !.row = r]
    <2>1. /\ t.at = "createSub" /\ task' = [task EXCEPT ![w] = q]
          /\ UNCHANGED <<db, events, moved, prorated>>
      BY <1>7, <1>1 DEF CreateSubscription, At, ContinueWith
    <2>2. q.row = r /\ q.at = "save" /\ r.sub = s /\ r.plan = t.plan
      BY <1>1 DEF Task, Row, Activated, OnPlan
    <2> HIDE DEF q, r
    <2>3. t # Idle /\ q # Idle
      BY <2>1, <2>2 DEF Idle
    <2>4. Sound => Settled(setting, r, subs', billed')
      <3> SUFFICES ASSUME Sound PROVE Settled(setting, r, subs', billed')
        OBVIOUS
      <3>1. setting.moves = {} => \A x \in Subs : subs[x] # "ACTIVE"
        BY <1>2, <2>1, <2>3 DEF Right
      <3>. QED  BY <1>1, <2>2, <3>1 DEF Settled
    <2>5. Sound => Right(setting, q, tenant', subs', billed', prorated' - moved')
      BY <1>2, <2>1, <2>2, <2>3, <2>4 DEF Right
    <2>. QED  BY <2>1, <2>2, <2>3, <2>5, SoundStep
  <1>. QED  BY <1>4, <1>5, <1>6, <1>7

(* ChangePlan.                                                             *)
LEMMA SoundChange ==
    ASSUME IInv, SoundInv, UNCHANGED setting, setting.serial => OneAtATime',
           NEW w \in Workers,
           \/ ChangePlan(w) \/ GetSubscription(w) \/ Prorate(w) \/ Charge(w)
           \/ UpdateSubscription(w)
    PROVE  SoundInv'
  <1> DEFINE t == task[w]
             s == t.row.sub
  <1>1. /\ t \in Task /\ t.row \in Row /\ task \in [Workers -> Task]
        /\ tenant \in Row /\ billed \in [Subs -> Plans]
        /\ prorated \in Int /\ moved \in Int
        /\ t.plan \in Plans /\ t.old \in Plans /\ TaskOK(t, subs)
    BY DEF IInv, TypeOK, Task
  <1>2. ASSUME Sound, t # Idle
        PROVE  Right(setting, t, tenant, subs, billed, prorated - moved)
    BY <1>2 DEF SoundInv
  <1>3. Amount(t) \in Int
    BY <1>1, BillingAssumption DEF Amount
  <1>4. CASE ChangePlan(w)
    <2> PICK plan \in PaidPlans : Begin(w, "change", "getSub", tenant, plan)
      BY <1>4 DEF ChangePlan
    <2>. QED  BY SoundBegin
  <1>5. CASE GetSubscription(w)
    <2> DEFINE q == [t EXCEPT !.at = "prorate", !.old = billed[s]]
    <2>1. /\ t.at = "getSub" /\ task' = [task EXCEPT ![w] = q]
          /\ UNCHANGED <<db, remote, prorated>>
      BY <1>5, <1>1 DEF GetSubscription, At
    <2>2. q.row = t.row /\ q.at = "prorate" /\ q.old = billed[s]
      BY <1>1 DEF Task
    <2> HIDE DEF q
    <2>3. t # Idle /\ q # Idle
      BY <2>1, <2>2 DEF Idle
    <2>4. Sound => Right(setting, q, tenant, subs, billed, prorated - moved)
      BY <1>2, <2>1, <2>2, <2>3 DEF Right
    <2>. QED  BY <1>2, <2>1, <2>2, <2>3, <2>4, SoundStep DEF db, remote
  <1>6. CASE Prorate(w)
    <2> DEFINE q == [t EXCEPT !.at = "charge"]
    <2>1. /\ t.at = "prorate" /\ task' = [task EXCEPT ![w] = q]
          /\ prorated' = prorated + Amount(t) /\ UNCHANGED <<db, remote>>
      BY <1>6, <1>1 DEF Prorate, At, Continue
    <2>2. q.row = t.row /\ q.at = "charge" /\ q.old = t.old /\ q.plan = t.plan
      BY <1>1 DEF Task
    <2> HIDE DEF q
    <2>3. t # Idle /\ q # Idle /\ Amount(q) = Amount(t)
      BY <2>1, <2>2 DEF Idle, Amount
    <2>4. Sound => prorated' - moved = Amount(t)
      BY <1>1, <1>2, <1>3, <2>1, <2>3 DEF Right
    <2>5. Sound => Right(setting, q, tenant, subs, billed, prorated' - moved)
      BY <1>2, <2>1, <2>2, <2>3, <2>4 DEF Right
    <2>. QED  BY <1>2, <2>1, <2>2, <2>3, <2>5, SoundStep DEF db, remote
  <1>7. CASE Charge(w)
    <2> DEFINE q == [t EXCEPT !.at = "updateSub"]
    <2>1. /\ t.at = "charge" /\ task' = [task EXCEPT ![w] = q]
          /\ UNCHANGED <<db, subs, billed, events, moved, prorated>>
      BY <1>7, <1>1 DEF Charge, At, Continue
    <2>2. q.row = t.row /\ q.at = "updateSub" /\ q.old = t.old /\ q.plan = t.plan
      BY <1>1 DEF Task
    <2> HIDE DEF q
    <2>3. t # Idle /\ q # Idle /\ Amount(q) = Amount(t)
      BY <2>1, <2>2 DEF Idle, Amount
    <2>4. Sound => Right(setting, q, tenant, subs, billed, prorated - moved)
      BY <1>2, <2>1, <2>2, <2>3 DEF Right
    <2>. QED  BY <1>2, <2>1, <2>2, <2>3, <2>4, SoundStep DEF db
  <1>8. CASE UpdateSubscription(w)
    <2> DEFINE r == OnPlan(t.row, t.plan)
               q == [t EXCEPT !.at = "save", !.row = r]
    <2>1. /\ t.at = "updateSub" /\ task' = [task EXCEPT ![w] = q]
          /\ UNCHANGED <<db, subs, events, prorated>>
          /\ billed' = [billed EXCEPT ![s] = t.plan]
          /\ moved' = moved + Price[t.plan] - Price[billed[s]]
      BY <1>8, <1>1 DEF UpdateSubscription, At, ContinueWith
    <2>2. q.row = r /\ q.at = "save" /\ r.sub = s /\ r.plan = t.plan
      BY <1>1 DEF Task, Row, OnPlan
    <2> HIDE DEF q, r
    <2>3. t # Idle /\ q # Idle
      BY <2>1, <2>2 DEF Idle
    <2>4. s \in Subs
      BY <1>1, <2>1 DEF TaskOK, Row
    <2>5. Sound => Settled(setting, r, subs, billed')
      BY <1>1, <1>2, <2>1, <2>2, <2>3, <2>4 DEF Right, Settled
    <2>6. Sound => prorated - moved' = 0
      <3> SUFFICES ASSUME Sound PROVE prorated - moved' = 0
        OBVIOUS
      <3>1. prorated - moved = Price[t.plan] - Price[t.old] /\ t.old = billed[s]
        BY <1>2, <2>1, <2>3 DEF Right, Amount
      <3>2. Price[t.plan] \in Int /\ Price[t.old] \in Int
        BY <1>1, BillingAssumption
      <3>. QED  BY <1>1, <2>1, <3>1, <3>2
    <2>7. Sound => Right(setting, q, tenant, subs, billed', prorated - moved')
      BY <2>2, <2>5, <2>6 DEF Right
    <2>. QED  BY <1>2, <2>1, <2>2, <2>3, <2>7, SoundStep DEF db
  <1>. QED  BY <1>4, <1>5, <1>6, <1>7, <1>8

(* CancelSubscription and the events.                                      *)
LEMMA SoundEvents ==
    ASSUME IInv, SoundInv, UNCHANGED setting, setting.serial => OneAtATime',
           NEW w \in Workers,
           \/ Cancel(w) \/ CancelSubscription(w) \/ HandleEvent(w)
           \/ CreateDunning(w)
    PROVE  SoundInv'
  <1> DEFINE t == task[w]
             s == t.row.sub
  <1>1. /\ t \in Task /\ t.row \in Row /\ task \in [Workers -> Task]
        /\ tenant \in Row /\ subs \in [Subs -> SubStatuses]
        /\ events \in SUBSET Event /\ TaskOK(t, subs)
    BY DEF IInv, TypeOK, Task
  <1>2. ASSUME Sound, t # Idle
        PROVE  Right(setting, t, tenant, subs, billed, prorated - moved)
    BY <1>2 DEF SoundInv
  <1>3. CASE Cancel(w)
    <2>1. Begin(w, "cancel", "cancelSub", tenant, "trial")
      BY <1>3 DEF Cancel
    <2>. QED  BY <2>1, SoundBegin
  <1>4. CASE CancelSubscription(w)
    <2> DEFINE r == Cancelled(t.row)
               q == [t EXCEPT !.at = "save", !.row = r]
    <2>1. /\ t.at = "cancelSub" /\ task' = [task EXCEPT ![w] = q]
          /\ UNCHANGED <<db, billed, moved, prorated>>
          /\ subs' = [subs EXCEPT ![s] = "CANCELLED"]
      BY <1>4, <1>1 DEF CancelSubscription, At, ContinueWith
    <2>2. q.row = r /\ q.at = "save" /\ r.sub = s /\ r.plan = t.row.plan
      BY <1>1 DEF Task, Row, Cancelled
    <2> HIDE DEF q, r
    <2>3. t # Idle /\ q # Idle
      BY <2>1, <2>2 DEF Idle
    <2>4. Sound => Settled(setting, r, subs', billed)
      BY <1>1, <1>2, <2>1, <2>2, <2>3 DEF Right, Settled
    <2>5. Sound => Right(setting, q, tenant, subs', billed, prorated - moved)
      BY <1>2, <2>1, <2>2, <2>3, <2>4 DEF Right
    <2>. QED  BY <2>1, <2>2, <2>3, <2>5, SoundStep DEF db
  <1>5. CASE HandleEvent(w)
    <2> PICK e \in events :
          /\ e.sub = tenant.sub
          /\ PaymentReceived(w, e) \/ PaymentOverdue(w, e)
      BY <1>5 DEF HandleEvent
    <2>1. ASSUME NEW status, Settled(setting, tenant, subs, billed)
          PROVE  /\ Settled(setting, [tenant EXCEPT !.status = status],
                            subs, billed)
                 /\ tenant.sub = [tenant EXCEPT !.status = status].sub
                 /\ tenant.plan = [tenant EXCEPT !.status = status].plan
      <3>1. /\ tenant.sub = [tenant EXCEPT !.status = status].sub
            /\ tenant.plan = [tenant EXCEPT !.status = status].plan
        BY <1>1 DEF Row
      <3>. QED  BY <2>1, <3>1, SettledAlike
    <2>2. CASE PaymentReceived(w, e)
      <3>1. Begin(w, "webhook", "save", [tenant EXCEPT !.status = "ACTIVE"],
                  "trial")
        BY <2>2 DEF PaymentReceived
      <3>. QED  BY <2>1, <3>1, SoundBegin
    <2>3. CASE PaymentOverdue(w, e)
      <3>1. Begin(w, "webhook", "dunning",
                  [tenant EXCEPT !.status = "PENDING_PAYMENT"], "trial")
        BY <2>3 DEF PaymentOverdue
      <3>. QED  BY <2>1, <3>1, SoundBegin
    <2>. QED  BY <2>2, <2>3
  <1>6. CASE CreateDunning(w)
    <2> DEFINE q == [t EXCEPT !.at = "save"]
    <2>1. /\ t.at = "dunning" /\ task' = [task EXCEPT ![w] = q]
          /\ UNCHANGED <<tenant, remote, prorated>>
      BY <1>6, <1>1 DEF CreateDunning, At, Continue
    <2>2. q.row = t.row /\ q.at = "save"
      BY <1>1 DEF Task
    <2> HIDE DEF q
    <2>3. t # Idle /\ q # Idle
      BY <2>1, <2>2 DEF Idle
    <2>4. Sound => Right(setting, q, tenant, subs, billed, prorated - moved)
      BY <1>2, <2>1, <2>2, <2>3 DEF Right
    <2>. QED  BY <1>2, <2>1, <2>2, <2>3, <2>4, SoundStep DEF remote
  <1>. QED  BY <1>3, <1>4, <1>5, <1>6

(* The trial job changes the status only; an administrator changes neither *)
(* the subscription nor, unless he is there at all, the plan.              *)
LEMMA SoundAdministration ==
    ASSUME IInv, SoundInv, UNCHANGED setting, setting.serial => OneAtATime',
           NEW w \in Workers, Administration(w)
    PROVE  SoundInv'
  <1>1. tenant \in Row /\ setting \in Setting
    BY DEF IInv, TypeOK
  <1>2. CASE ExpireTrial(w)
    <2> DEFINE r == [tenant EXCEPT !.status = "SUSPENDED"]
    <2>1. Begin(w, "expireTrials", "save", r, "trial")
      BY <1>2 DEF ExpireTrial
    <2>2. r.sub = tenant.sub /\ r.plan = tenant.plan
      BY <1>1 DEF Row
    <2> HIDE DEF r
    <2>. QED  BY <2>1, <2>2, SettledAlike, SoundBegin
  <1>3. ASSUME NEW kind \in AdminOps, NEW r, NEW plan,
               Begin(w, kind, "save", r, plan), r.sub = tenant.sub
        PROVE  SoundInv'
    <2>1. setting.ops \cap AdminOps # {}
      BY <1>3 DEF Begin
    <2>2. Settled(setting, tenant, subs, billed) =>
              Settled(setting, r, subs, billed)
      BY <1>3, <2>1 DEF Settled
    <2>. QED  BY <1>3, <2>2, SoundBegin
  <1>4. ASSUME NEW plan PROVE OnPlan(tenant, plan).sub = tenant.sub
    BY <1>1 DEF OnPlan, Row
  <1>5. CASE ActivateTenant(w)
    <2> PICK q \in {OnPlan(tenant, plan) : plan \in PaidPlans} \cup {tenant} :
          Begin(w, "adminActivate", "save", [q EXCEPT !.status = "ACTIVE"],
                "trial")
      BY <1>5 DEF ActivateTenant
    <2>1. [q EXCEPT !.status = "ACTIVE"].sub = tenant.sub
      BY <1>1 DEF OnPlan, Row
    <2>. QED  BY <1>3, <2>1 DEF AdminOps
  <1>6. CASE UpdateTenantPlan(w)
    <2> PICK plan \in Plans :
          Begin(w, "adminPlan", "save", OnPlan(tenant, plan), "trial")
      BY <1>6 DEF UpdateTenantPlan
    <2>. QED  BY <1>3, <1>4 DEF AdminOps
  <1>7. CASE UpdateTenantStatus(w)
    <2> PICK status \in Statuses :
          Begin(w, "adminStatus", "save",
                IF status = "CANCELLED" THEN Cancelled(tenant)
                ELSE [tenant EXCEPT !.status = status], "trial")
      BY <1>7 DEF UpdateTenantStatus
    <2>1. (IF status = "CANCELLED" THEN Cancelled(tenant)
           ELSE [tenant EXCEPT !.status = status]).sub = tenant.sub
      BY <1>1 DEF Cancelled, Row
    <2>. QED  BY <1>3, <2>1 DEF AdminOps
  <1>8. CASE ExtendTrial(w)
    <2> PICK end :
          Begin(w, "adminExtend", "save",
                [tenant EXCEPT !.trialEnd = end, !.status = "TRIAL"], "trial")
      BY <1>8 DEF ExtendTrial
    <2>1. [tenant EXCEPT !.trialEnd = end, !.status = "TRIAL"].sub = tenant.sub
      BY <1>1 DEF Row
    <2>. QED  BY <1>3, <2>1 DEF AdminOps
  <1>. QED  BY <1>2, <1>5, <1>6, <1>7, <1>8 DEF Administration

(* Save leaves the table as the copy was; outside the program, only the    *)
(* gateway's own moves matter.                                             *)
LEMMA SoundRest ==
    ASSUME IInv, SoundInv, UNCHANGED setting, setting.serial => OneAtATime'
    PROVE  /\ \A w \in Workers : Save(w) \/ Fail(w) => SoundInv'
           /\ Environment => SoundInv'
  <1>1. /\ task \in [Workers -> Task] /\ prorated \in Int /\ moved \in Int
        /\ tenant \in Row /\ subs \in [Subs -> SubStatuses]
    BY DEF IInv, TypeOK
  <1>2. ASSUME NEW w \in Workers, Save(w) PROVE SoundInv'
    <2>1. /\ task[w].at = "save" /\ task' = [task EXCEPT ![w] = Idle]
          /\ tenant' = task[w].row /\ UNCHANGED <<remote, prorated>>
      BY <1>2 DEF Save, At, Finish
    <2>2. task[w] # Idle
      BY <2>1 DEF Idle
    <2>3. Sound => /\ Settled(setting, tenant', subs, billed)
                   /\ prorated = moved
      BY <1>1, <2>1, <2>2 DEF SoundInv, Right
    <2>. QED  BY <2>1, <2>2, <2>3, SoundStep DEF remote
  <1>3. ASSUME NEW w \in Workers, Fail(w) PROVE SoundInv'
    <2>1. ~Sound
      BY <1>3 DEF Fail, Sound
    <2>. QED  BY <2>1 DEF SoundInv, Sound
  <1>4. ASSUME UNCHANGED <<task, billed, prorated, moved>>,
               tenant'.sub = tenant.sub, tenant'.plan = tenant.plan,
               setting.moves = {} => subs' = subs
        PROVE  SoundInv'
    <2> SUFFICES ASSUME Sound PROVE SoundInv'
      BY DEF SoundInv, Sound
    <2>1. ASSUME NEW r, NEW q, q.sub = r.sub, q.plan = r.plan,
                 Settled(setting, r, subs, billed)
          PROVE  Settled(setting, q, subs', billed')
      BY <1>4, <2>1 DEF Settled
    <2>2. Quiet' => Quiet /\ OneAtATime' = OneAtATime
      BY <1>4 DEF Quiet, OneAtATime
    <2>3. ASSUME NEW v \in Workers, task[v] # Idle
          PROVE  Right(setting, task[v], tenant', subs', billed',
                       prorated' - moved')
      <3>1. Right(setting, task[v], tenant, subs, billed, prorated - moved)
        BY <2>3 DEF SoundInv
      <3>2. Settled(setting, task[v].row, subs', billed')
        BY <2>1, <3>1 DEF Right
      <3>. QED  BY <1>4, <3>1, <3>2 DEF Right
    <2>4. OneAtATime'
      BY DEF Sound
    <2>5. Quiet' => /\ Settled(setting, tenant', subs', billed')
                    /\ prorated' = moved'
      BY <1>4, <2>1, <2>2 DEF SoundInv
    <2>. QED  BY <1>4, <2>3, <2>4, <2>5 DEF SoundInv
  <1>5. ASSUME NEW s \in Subs,
               InvoiceOverdue(s) \/ InvoicePaid(s) \/ DeletedAtGateway(s)
        PROVE  SoundInv'
    <2>1. /\ setting.moves # {}
          /\ UNCHANGED <<task, billed, prorated, moved, tenant>>
      BY <1>5 DEF InvoiceOverdue, InvoicePaid, DeletedAtGateway, Move, db
    <2>. QED  BY <1>4, <2>1
  <1>6. ASSUME UserJoins \/ UserLeaves PROVE SoundInv'
    <2>1. /\ UNCHANGED <<task, billed, prorated, moved, events, subs>>
          /\ tenant'.sub = tenant.sub /\ tenant'.plan = tenant.plan
      BY <1>1, <1>6 DEF UserJoins, UserLeaves, remote, Row
    <2>. QED  BY <1>4, <2>1 DEF SoundInv
  <1>7. CASE Tick
    BY <1>4, <1>7 DEF Tick, db, remote, SoundInv
  <1>8. Environment => SoundInv'
    BY <1>5, <1>6, <1>7 DEF Environment
  <1>. QED  BY <1>2, <1>3, <1>8

(* One operation after the other and none fails: what is billed is what    *)
(* the tenant has, what was credited is what changed, and nobody is billed *)
(* twice, whatever events are late.                                        *)
THEOREM SerialBillingIsRight == Spec => []SerialBilling
  <1>1. IInv /\ SoundInv /\ [Next]_vars => SoundInv'
    <2> SUFFICES ASSUME IInv, SoundInv, [Next]_vars PROVE SoundInv'
      OBVIOUS
    <2>1. CASE Next
      BY <2>1, SoundActivation, SoundChange, SoundEvents, SoundAdministration,
         SoundRest DEF Next, Billing
    <2>2. CASE UNCHANGED vars
      BY <2>2 DEF SoundInv, Sound, OneAtATime, Quiet, vars, db, remote
    <2>. QED  BY <2>1, <2>2
  <1>2. ASSUME IInv, SoundInv, Sound, setting.moves = {}
        PROVE  OneActiveSubscription
    <2> DEFINE A == {s \in Subs : subs[s] = "ACTIVE"}
    <2>1. \E x : A \subseteq {x}
      <3>1. CASE Quiet
        BY <1>2, <3>1 DEF SoundInv, Settled
      <3>2. CASE ~Quiet
        <4> PICK w \in Workers : task[w] # Idle
          BY <3>2 DEF Quiet
        <4>1. A \subseteq {task[w].row.sub}
          BY <1>2 DEF SoundInv, Right, Settled
        <4>. QED  BY <4>1
      <3>. QED  BY <3>1, <3>2
    <2> PICK x : A \subseteq {x}
      BY <2>1
    <2> HIDE DEF A
    <2>2. Cardinality(A) <= 1
      <3>1. A = {} \/ A = {x}
        OBVIOUS
      <3>. QED  BY <3>1, FS_EmptySet, FS_Singleton
    <2>. QED  BY <2>2 DEF A, OneActiveSubscription
  <1>3. IInv /\ SoundInv => SerialBilling
    <2> SUFFICES ASSUME IInv, SoundInv, Sound
                 PROVE  /\ ProrationAddsUp
                        /\ setting.ops \cap AdminOps = {} => PlanMatchesBilling
                        /\ setting.moves = {} => OneActiveSubscription
      BY DEF SerialBilling, Sound
    <2>1. ProrationAddsUp
      BY DEF SoundInv, ProrationAddsUp
    <2>2. setting.ops \cap AdminOps = {} => PlanMatchesBilling
      BY DEF SoundInv, Settled, PlanMatchesBilling
    <2>. QED  BY <1>2, <2>1, <2>2
  <1>. QED  BY SpecIInv, SoundInit, <1>1, <1>3, PTL DEF Spec

-----------------------------------------------------------------------------
(* The client of the gateway.  A reference that tenant t holds is none, an *)
(* unreadable one, or that of a customer made for t; so is what a request  *)
(* of t carries and what t is shown.  The owner of a customer, once he has *)
(* one, and a bill do not change: what was t's stays t's.                  *)
OfTenant(own, c, t) == c \in Client!Ref /\ (c \in Customers => own[c] = t)
Really(own, c, t) == OfTenant(own, c, t) /\ c # Client!Null
BillOf(own, pays, p, t) ==
    p \in Payments /\ pays[p].cust \in Customers /\ own[pays[p].cust] = t

ActivationSteps == {"create", "save", "sub", "subscribe", "saveSub"}
GoodRequest(r, own, pays) ==
    /\ OfTenant(own, r.cust, r.tenant) /\ OfTenant(own, r.sub, r.tenant)
    /\ \A c \in r.found : Really(own, c, r.tenant)
    /\ r.at = "read" /\ r.kind \in Client!PaymentKinds => r.id \in Payments
    /\ r.at = "customer" => r.kind = "info"
    /\ r.at \in ActivationSteps => r.kind = "activate"
    /\ r.at \in ActivationSteps \ {"create"} => r.cust # Client!Null
    /\ r.at = "saveSub" => r.sub # Client!Null
    /\ r.at = "pix" => r.kind = "pix" /\ BillOf(own, pays, r.id, r.tenant)

GoodAnswer(s, own, pays) ==
    /\ \A c \in s.found : Really(own, c, s.tenant)
    /\ s.kind \in Client!PaymentKinds /\ s.status # 404 =>
           /\ BillOf(own, pays, s.id, s.tenant)
           /\ s.status = 200 /\ s.kind \in Client!LinkKinds =>
                  s.kind \in pays[s.id].links

RemoteOK ==
    /\ ownerOf \in [Customers -> Tenants \cup {0}]
    /\ known \subseteq Customers /\ \A c \in known : ownerOf[c] # 0
    /\ bills \in [Payments -> Client!Bill \cup {Client!NoBill}]
RowsOK ==
    /\ custOf \in [Tenants -> Client!Ref] /\ subOf \in [Tenants -> Client!Ref]
    /\ \A t \in Tenants : OfTenant(ownerOf, custOf[t], t) /\ OfTenant(ownerOf, subOf[t], t)
CountsOK == bad \in 0 .. MaxBad /\ requests \in 0 .. MaxAsked
AskedOK ==
    /\ asked \in [Handlers -> Client!Request]
    /\ \A h \in Handlers : GoodRequest(asked[h], ownerOf, bills)
ShownOK == shown \in Client!Answer /\ GoodAnswer(shown, ownerOf, bills)

ClientInv == RemoteOK /\ RowsOK /\ CountsOK /\ AskedOK /\ ShownOK

Grows ==
    /\ \A c \in Customers : ownerOf[c] # 0 => ownerOf'[c] = ownerOf[c]
    /\ \A p \in Payments : bills[p] # Client!NoBill => bills'[p] = bills[p]

LEMMA TenantStays ==
    ASSUME Grows, NEW t \in Tenants, NEW c, OfTenant(ownerOf, c, t)
    PROVE  OfTenant(ownerOf', c, t)
BY ClientAssumption DEF Grows, OfTenant

LEMMA BillStays ==
    ASSUME Grows, NEW t \in Tenants, NEW p, BillOf(ownerOf, bills, p, t)
    PROVE  BillOf(ownerOf', bills', p, t) /\ bills'[p] = bills[p]
<1>1. bills[p] # Client!NoBill
  BY ClientAssumption DEF BillOf, Client!NoBill, Client!Null
<1>. QED  BY <1>1, ClientAssumption DEF Grows, BillOf

LEMMA RequestStays ==
    ASSUME Grows, NEW r \in Client!Request, GoodRequest(r, ownerOf, bills)
    PROVE  GoodRequest(r, ownerOf', bills')
<1>1. r.tenant \in Tenants
  BY DEF Client!Request
<1>. QED  BY <1>1, TenantStays, BillStays DEF GoodRequest, Really

LEMMA AnswerStays ==
    ASSUME Grows, NEW s \in Client!Answer, GoodAnswer(s, ownerOf, bills)
    PROVE  GoodAnswer(s, ownerOf', bills')
<1>1. s.tenant \in Tenants
  BY DEF Client!Answer
<1>. QED  BY <1>1, TenantStays, BillStays DEF GoodAnswer, Really

LEMMA ContinueStep ==
    ASSUME ClientInv, NEW h \in Handlers, NEW r \in Client!Request,
           Client!Continue(h, r), Grows, RemoteOK', RowsOK', bad' \in 0 .. MaxBad,
           GoodRequest(r, ownerOf', bills')
    PROVE  ClientInv'
<1>1. asked' = [asked EXCEPT ![h] = r] /\ shown' = shown /\ requests' = requests
  BY DEF Client!Continue
<1>2. /\ asked' \in [Handlers -> Client!Request] /\ asked'[h] = r
      /\ \A g \in Handlers \ {h} : asked'[g] = asked[g]
  BY <1>1 DEF ClientInv, AskedOK
<1>3. \A g \in Handlers \ {h} : GoodRequest(asked'[g], ownerOf', bills')
  BY <1>2, RequestStays DEF ClientInv, AskedOK
<1>4. AskedOK'
  BY <1>2, <1>3 DEF AskedOK
<1>5. ShownOK'
  BY <1>1, AnswerStays DEF ClientInv, ShownOK
<1>6. CountsOK'
  BY <1>1 DEF ClientInv, CountsOK
<1>. QED  BY <1>4, <1>5, <1>6 DEF ClientInv

LEMMA IdleIsGood == Client!Idle \in Client!Request /\ GoodRequest(Client!Idle, ownerOf', bills')
<1>1. Client!Idle \in Client!Request
  BY ClientAssumption
  DEF Client!Idle, Client!Request, Client!Kinds, Client!Ids, Client!Ref, Client!Null
<1>2. /\ Client!Idle.cust = Client!Null /\ Client!Idle.sub = Client!Null
      /\ Client!Idle.found = {} /\ Client!Idle.at = "idle"
  BY DEF Client!Idle
<1>3. Client!Null \in Client!Ref /\ Client!Null \notin Customers
  BY ClientAssumption DEF Client!Ref, Client!Null
<1>. QED  BY <1>1, <1>2, <1>3 DEF GoodRequest, OfTenant, ActivationSteps

LEMMA RespondStep ==
    ASSUME ClientInv, NEW h \in Handlers, NEW status \in {200, 400, 404, 500},
           NEW found \in SUBSET Client!Ref, Client!Respond(h, status, found),
           Grows, RemoteOK', RowsOK', bad' \in 0 .. MaxBad,
           \A c \in found : Really(ownerOf', c, asked[h].tenant),
           asked[h].kind \in Client!PaymentKinds /\ status # 404 =>
               /\ BillOf(ownerOf', bills', asked[h].id, asked[h].tenant)
               /\ status = 200 /\ asked[h].kind \in Client!LinkKinds =>
                      asked[h].kind \in bills'[asked[h].id].links
    PROVE  ClientInv'
<1> DEFINE s == [tenant |-> asked[h].tenant, kind |-> asked[h].kind, id |-> asked[h].id,
                 status |-> status, found |-> found]
<1>1. asked' = [asked EXCEPT ![h] = Client!Idle] /\ shown' = s /\ requests' = requests
  BY DEF Client!Respond
<1>2. asked[h] \in Client!Request
  BY DEF ClientInv, AskedOK
<1>3. /\ s \in Client!Answer /\ s.tenant = asked[h].tenant /\ s.kind = asked[h].kind
      /\ s.id = asked[h].id /\ s.status = status /\ s.found = found
  BY <1>2 DEF Client!Request, Client!Answer
<1> HIDE DEF s
<1>4. ShownOK'
  BY <1>1, <1>3 DEF ShownOK, GoodAnswer
<1>5. AskedOK'
  <2>1. /\ asked' \in [Handlers -> Client!Request] /\ asked'[h] = Client!Idle
        /\ \A g \in Handlers \ {h} : asked'[g] = asked[g]
    BY <1>1, IdleIsGood DEF ClientInv, AskedOK
  <2>2. \A g \in Handlers \ {h} : GoodRequest(asked'[g], ownerOf', bills')
    BY <2>1, RequestStays DEF ClientInv, AskedOK
  <2>. QED  BY <2>1, <2>2, IdleIsGood DEF AskedOK
<1>6. CountsOK'
  BY <1>1 DEF ClientInv, CountsOK
<1>. QED  BY <1>4, <1>5, <1>6 DEF ClientInv

LEMMA RemoteRests ==
    ASSUME ClientInv, UNCHANGED <<ownerOf, known, bills>>
    PROVE  Grows /\ RemoteOK'
BY DEF ClientInv, RemoteOK, Grows

LEMMA RowsRest ==
    ASSUME ClientInv, UNCHANGED <<custOf, subOf>>, Grows
    PROVE  RowsOK'
BY TenantStays DEF ClientInv, RowsOK

LEMMA BadCounts ==
    ASSUME ClientInv, NEW good \in {"object", "refused", "list"},
           NEW reply \in Client!Replies(good), Client!Counts(reply)
    PROVE  bad' \in 0 .. MaxBad
<1>1. bad \in 0 .. MaxBad /\ MaxBad \in Nat
  BY ClientAssumption DEF ClientInv, CountsOK
<1>2. reply \in {"failed", "noObject"} => bad < MaxBad
  BY DEF Client!Replies
<1>. QED  BY <1>1, <1>2 DEF Client!Counts

(* What is read of an answer is what was asked for, or nothing.            *)
LEMMA ParsedIsAsked ==
    ASSUME NEW body, NEW c, NEW own, NEW t, OfTenant(own, c, t), c # Client!Null
    PROVE  /\ Client!ParseCustomer(body, c) \in Client!Ref
           /\ Really(own, Client!ParseCustomer(body, c), t)
           /\ Client!ParseSubscription(body, c) \in Client!Ref
           /\ Really(own, Client!ParseSubscription(body, c), t)
<1>1. /\ Client!Blank \in Client!Ref /\ Client!Blank \notin Customers
      /\ Client!Blank # Client!Null
  BY ClientAssumption DEF Client!Ref, Client!Blank, Client!Null
<1>2. Really(own, c, t) /\ Really(own, Client!Blank, t)
  BY <1>1 DEF Really, OfTenant
<1>. QED  BY <1>2 DEF Client!ParseCustomer, Client!ParseSubscription, Really, OfTenant

LEMMA RequestTypes ==
    ASSUME NEW r \in Client!Request
    PROVE  /\ r.tenant \in Tenants /\ r.cust \in Client!Ref /\ r.sub \in Client!Ref
           /\ r.found \in SUBSET Client!Ref /\ r.kind \in Client!Kinds /\ r.id \in Client!Ids
BY DEF Client!Request

LEMMA AskStep == ASSUME ClientInv, NEW h \in Handlers, Client!Ask(h) PROVE ClientInv'
<1>1. PICK t \in Tenants, kind \in Client!Kinds, id \in Client!Ids :
        /\ requests < MaxAsked /\ requests' = requests + 1
        /\ IF kind \in Client!PaymentKinds /\ id = 0
           THEN /\ shown' = [tenant |-> t, kind |-> kind, id |-> id,
                             status |-> 404, found |-> {}]
                /\ UNCHANGED asked
           ELSE /\ asked' = [asked EXCEPT ![h] =
                        [tenant |-> t, kind |-> kind, id |-> id, at |-> "read",
                         cust |-> custOf[t], sub |-> subOf[t], found |-> {}]]
                /\ UNCHANGED shown
        /\ UNCHANGED <<custOf, subOf, ownerOf, known, bills, bad>>
  BY DEF Client!Ask, Client!remote
<1> DEFINE s == [tenant |-> t, kind |-> kind, id |-> id, status |-> 404, found |-> {}]
           r == [tenant |-> t, kind |-> kind, id |-> id, at |-> "read",
                 cust |-> custOf[t], sub |-> subOf[t], found |-> {}]
<1>2. Grows /\ RemoteOK' /\ RowsOK'
  BY <1>1, RemoteRests, RowsRest
<1>3. CountsOK'
  BY <1>1, ClientAssumption DEF ClientInv, CountsOK
<1>4. /\ s \in Client!Answer /\ s.status = 404 /\ s.found = {}
  BY DEF Client!Answer
<1>5. /\ custOf[t] \in Client!Ref /\ subOf[t] \in Client!Ref
      /\ OfTenant(ownerOf, custOf[t], t) /\ OfTenant(ownerOf, subOf[t], t)
  BY DEF ClientInv, RowsOK
<1>6. /\ r \in Client!Request /\ r.tenant = t /\ r.kind = kind /\ r.id = id
      /\ r.at = "read" /\ r.cust = custOf[t] /\ r.sub = subOf[t] /\ r.found = {}
  BY <1>5 DEF Client!Request
<1> HIDE DEF s, r
<1>7. CASE shown' = s /\ UNCHANGED asked
  <2>1. ShownOK'
    BY <1>4, <1>7 DEF ShownOK, GoodAnswer
  <2>2. AskedOK'
    BY <1>2, <1>7, RequestStays DEF ClientInv, AskedOK
  <2>. QED  BY <1>2, <1>3, <2>1, <2>2 DEF ClientInv
<1>8. CASE asked' = [asked EXCEPT ![h] = r] /\ UNCHANGED shown
           /\ ~(kind \in Client!PaymentKinds /\ id = 0)
  <2>1. id \in Payments \/ kind \notin Client!PaymentKinds
    BY <1>8 DEF Client!Ids
  <2>2. GoodRequest(r, ownerOf, bills)
    BY <1>5, <1>6, <2>1 DEF GoodRequest, ActivationSteps
  <2>3. /\ asked' \in [Handlers -> Client!Request]
        /\ \A g \in Handlers : GoodRequest(asked'[g], ownerOf, bills)
    BY <1>6, <1>8, <2>2 DEF ClientInv, AskedOK
  <2>4. AskedOK'
    BY <1>1, <2>3 DEF AskedOK
  <2>5. ShownOK'
    BY <1>1, <1>8 DEF ClientInv, ShownOK
  <2>. QED  BY <1>2, <1>3, <2>4, <2>5 DEF ClientInv
<1>. QED  BY <1>1, <1>7, <1>8 DEF s, r

(* What a step may rely on of the request it serves.                       *)
LEMMA Served ==
    ASSUME ClientInv, NEW h \in Handlers
    PROVE  LET r == asked[h] IN
           /\ r \in Client!Request /\ r.tenant \in Tenants
           /\ r.cust \in Client!Ref /\ r.sub \in Client!Ref
           /\ r.found \in SUBSET Client!Ref /\ r.id \in Client!Ids
           /\ GoodRequest(r, ownerOf, bills)
<1>1. asked[h] \in Client!Request /\ GoodRequest(asked[h], ownerOf, bills)
  BY DEF ClientInv, AskedOK
<1>. QED  BY <1>1 DEF Client!Request

(* An error answer shows nothing; to a request for a payment it is a 404.  *)
LEMMA ErrorStep ==
    ASSUME ClientInv, NEW h \in Handlers, NEW status \in {400, 404, 500},
           Client!Respond(h, status, {}), Grows, RemoteOK', RowsOK', bad' \in 0 .. MaxBad,
           asked[h].kind \in Client!PaymentKinds => status = 404
    PROVE  ClientInv'
BY RespondStep

LEMMA ActivateIsNoPayment ==
    /\ "activate" \notin Client!PaymentKinds /\ "info" \notin Client!PaymentKinds
    /\ "payments" \notin Client!PaymentKinds
    /\ Client!PaymentKinds = {"invoice", "boleto", "pix"}
    /\ Client!LinkKinds = {"invoice", "boleto"}
BY DEF Client!PaymentKinds, Client!LinkKinds

LEMMA ActivateError ==
    ASSUME NEW error
    PROVE  Client!ActivateStatus(error) \in {400, 404, 500}
BY DEF Client!ActivateStatus

LEMMA FindCustomerStep ==
    ASSUME ClientInv, NEW h \in Handlers, Client!FindCustomer(h)
    PROVE  ClientInv'
<1> DEFINE r == asked[h]
<1>1. /\ r.at = "read" /\ r.kind = "activate"
      /\ UNCHANGED <<custOf, subOf, ownerOf, known, bills>>
  BY DEF Client!FindCustomer, Client!At, Client!remote
<1>2. Grows /\ RemoteOK' /\ RowsOK'
  BY <1>1, RemoteRests, RowsRest
<1>3. /\ r \in Client!Request /\ r.cust \in Client!Ref /\ r.tenant \in Tenants
      /\ GoodRequest(r, ownerOf, bills)
  BY Served
<1>4. CASE Client!IsSet(r.cust)
  <2>1. PICK reply \in Client!GetCustomer(r.cust) :
          /\ Client!Counts(reply)
          /\ IF Client!DoRequest(reply) = Client!Failed
             THEN Client!Respond(h, Client!ActivateStatus("other"), {})
             ELSE Client!Continue(h, [r EXCEPT !.at = "sub",
                      !.cust = Client!ParseCustomer(Client!DoRequest(reply), r.cust)])
    BY <1>4 DEF Client!FindCustomer
  <2>2. bad' \in 0 .. MaxBad
    BY <2>1, BadCounts DEF Client!GetCustomer
  <2>3. CASE Client!Respond(h, Client!ActivateStatus("other"), {})
    BY <1>1, <1>2, <2>2, <2>3, ErrorStep, ActivateError, ActivateIsNoPayment
  <2> DEFINE c == Client!ParseCustomer(Client!DoRequest(reply), r.cust)
             n == [r EXCEPT !.at = "sub", !.cust = c]
  <2>4. CASE Client!Continue(h, n)
    <3>1. c \in Client!Ref /\ Really(ownerOf, c, r.tenant)
      BY <1>3, <1>4, ParsedIsAsked DEF GoodRequest, Client!IsSet
    <3> HIDE DEF c
    <3>2. /\ n \in Client!Request /\ n.tenant = r.tenant /\ n.kind = r.kind /\ n.cust = c
          /\ n.at = "sub" /\ n.sub = r.sub /\ n.found = r.found
      BY <1>3, <3>1 DEF Client!Request
    <3> HIDE DEF n
    <3>3. GoodRequest(n, ownerOf, bills)
      BY <1>1, <1>3, <3>1, <3>2 DEF GoodRequest, Really, ActivationSteps
    <3>4. GoodRequest(n, ownerOf', bills')
      BY <1>2, <3>2, <3>3, RequestStays
    <3>. QED  BY <1>2, <2>2, <2>4, <3>2, <3>4, ContinueStep
  <2>. QED  BY <2>1, <2>3, <2>4
<1>5. CASE ~Client!IsSet(r.cust)
  <2> DEFINE n == [r EXCEPT !.at = "create"]
  <2>1. Client!Continue(h, n) /\ UNCHANGED bad
    BY <1>5 DEF Client!FindCustomer
  <2>2. /\ n \in Client!Request /\ n.tenant = r.tenant /\ n.kind = r.kind /\ n.cust = r.cust
        /\ n.at = "create" /\ n.sub = r.sub /\ n.found = r.found
    BY <1>3 DEF Client!Request
  <2> HIDE DEF n
  <2>3. GoodRequest(n, ownerOf, bills)
    BY <1>1, <1>3, <2>2 DEF GoodRequest, ActivationSteps
  <2>4. GoodRequest(n, ownerOf', bills') /\ bad' \in 0 .. MaxBad
    BY <1>2, <2>1, <2>2, <2>3, RequestStays DEF ClientInv, CountsOK
  <2>. QED  BY <1>2, <2>1, <2>2, <2>4, ContinueStep
<1>. QED  BY <1>4, <1>5

LEMMA CreateCustomerStep ==
    ASSUME ClientInv, NEW h \in Handlers, Client!CreateCustomer(h)
    PROVE  ClientInv'
<1> DEFINE r == asked[h]
<1>1. PICK c \in Customers, reply \in Client!Replies("object") :
        /\ r.at = "create" /\ ownerOf[c] = 0
        /\ ownerOf' = [ownerOf EXCEPT ![c] = r.tenant]
        /\ known' = known \cup {c}
        /\ Client!Counts(reply)
        /\ IF Client!DoRequest(reply) = Client!Failed
           THEN Client!Respond(h, Client!ActivateStatus("other"), {})
           ELSE Client!Continue(h, [r EXCEPT !.at = "save",
                    !.cust = Client!ParseCustomer(Client!DoRequest(reply), c)])
        /\ UNCHANGED <<custOf, subOf, bills>>
  BY DEF Client!CreateCustomer, Client!At
<1>2. /\ r \in Client!Request /\ r.tenant \in Tenants /\ GoodRequest(r, ownerOf, bills)
  BY Served
<1>3. r.kind = "activate" /\ bad' \in 0 .. MaxBad
  BY <1>1, <1>2, BadCounts DEF GoodRequest, ActivationSteps
<1>4. /\ ownerOf' \in [Customers -> Tenants \cup {0}] /\ ownerOf'[c] = r.tenant
      /\ \A d \in Customers \ {c} : ownerOf'[d] = ownerOf[d]
  BY <1>1, <1>2 DEF ClientInv, RemoteOK
<1>5. r.tenant # 0
  BY <1>2, ClientAssumption
<1>6. Grows /\ RemoteOK'
  <2>1. Grows
    BY <1>1, <1>4 DEF Grows
  <2>2. known' \subseteq Customers /\ \A d \in known' : ownerOf'[d] # 0
    BY <1>1, <1>4, <1>5 DEF ClientInv, RemoteOK
  <2>. QED  BY <1>1, <1>4, <2>1, <2>2 DEF ClientInv, RemoteOK
<1>7. RowsOK'
  BY <1>1, <1>6, RowsRest
<1>8. CASE Client!Respond(h, Client!ActivateStatus("other"), {})
  BY <1>3, <1>6, <1>7, <1>8, ErrorStep, ActivateError, ActivateIsNoPayment
<1> DEFINE x == Client!ParseCustomer(Client!DoRequest(reply), c)
           n == [r EXCEPT !.at = "save", !.cust = x]
<1>9. CASE Client!Continue(h, n)
  <2>1. OfTenant(ownerOf', c, r.tenant) /\ c # Client!Null
    BY <1>4, ClientAssumption DEF OfTenant, Client!Ref, Client!Null
  <2>2. x \in Client!Ref /\ Really(ownerOf', x, r.tenant)
    BY <2>1, ParsedIsAsked
  <2> HIDE DEF x
  <2>3. /\ n \in Client!Request /\ n.tenant = r.tenant /\ n.kind = r.kind /\ n.cust = x
        /\ n.at = "save" /\ n.sub = r.sub /\ n.found = r.found
    BY <1>2, <2>2 DEF Client!Request
  <2> HIDE DEF n
  <2>4. GoodRequest(r, ownerOf', bills')
    BY <1>2, <1>6, RequestStays
  <2>5. GoodRequest(n, ownerOf', bills')
    BY <1>3, <2>2, <2>3, <2>4 DEF GoodRequest, Really, ActivationSteps
  <2>. QED  BY <1>3, <1>6, <1>7, <1>9, <2>3, <2>5, ContinueStep
<1>. QED  BY <1>1, <1>8, <1>9

(* A request's copies of the two columns may be written to its row.        *)
LEMMA RowWritten ==
    ASSUME ClientInv, Grows, NEW t \in Tenants, NEW c \in Client!Ref, NEW u \in Client!Ref,
           OfTenant(ownerOf, c, t), OfTenant(ownerOf, u, t),
           custOf' = [custOf EXCEPT ![t] = c], subOf' = [subOf EXCEPT ![t] = u]
    PROVE  RowsOK'
<1>1. /\ custOf' \in [Tenants -> Client!Ref] /\ subOf' \in [Tenants -> Client!Ref]
      /\ custOf'[t] = c /\ subOf'[t] = u
      /\ \A q \in Tenants \ {t} : custOf'[q] = custOf[q] /\ subOf'[q] = subOf[q]
  BY DEF ClientInv, RowsOK
<1>2. \A q \in Tenants : OfTenant(ownerOf, custOf'[q], q) /\ OfTenant(ownerOf, subOf'[q], q)
  BY <1>1 DEF ClientInv, RowsOK
<1>3. \A q \in Tenants : OfTenant(ownerOf', custOf'[q], q) /\ OfTenant(ownerOf', subOf'[q], q)
  BY <1>2, TenantStays
<1>. QED  BY <1>1, <1>3 DEF RowsOK

(* The stage of a request changes, and nothing else of it.                 *)
LEMMA StageMoves ==
    ASSUME ClientInv, NEW h \in Handlers, NEW stage \in {"create", "sub", "subscribe", "customer"},
           Client!Continue(h, [asked[h] EXCEPT !.at = stage]),
           Grows, RemoteOK', RowsOK', bad' \in 0 .. MaxBad,
           stage = "customer" => asked[h].kind = "info",
           stage # "customer" => asked[h].kind = "activate",
           stage \in {"sub", "subscribe"} => asked[h].cust # Client!Null
    PROVE  ClientInv'
<1> DEFINE r == asked[h]
           n == [r EXCEPT !.at = stage]
<1>1. r \in Client!Request /\ GoodRequest(r, ownerOf, bills)
  BY Served
<1>2. /\ n \in Client!Request /\ n.tenant = r.tenant /\ n.kind = r.kind /\ n.cust = r.cust
      /\ n.at = stage /\ n.sub = r.sub /\ n.found = r.found
  BY <1>1 DEF Client!Request
<1>3. Client!Continue(h, n)
  OBVIOUS
<1> HIDE DEF n
<1>4. GoodRequest(n, ownerOf, bills)
  BY <1>1, <1>2 DEF GoodRequest, ActivationSteps
<1>5. GoodRequest(n, ownerOf', bills')
  BY <1>2, <1>4, RequestStays
<1>. QED  BY <1>2, <1>3, <1>5, ContinueStep

LEMMA SaveCustomerStep ==
    ASSUME ClientInv, NEW h \in Handlers, Client!SaveCustomer(h)
    PROVE  ClientInv'
<1>1. /\ asked[h].at = "save"
      /\ custOf' = [custOf EXCEPT ![asked[h].tenant] = asked[h].cust]
      /\ subOf' = [subOf EXCEPT ![asked[h].tenant] = asked[h].sub]
      /\ Client!Continue(h, [asked[h] EXCEPT !.at = "sub"])
      /\ UNCHANGED <<ownerOf, known, bills, bad>>
  BY DEF Client!SaveCustomer, Client!At, Client!remote
<1>2. Grows /\ RemoteOK' /\ bad' \in 0 .. MaxBad
  BY <1>1, RemoteRests DEF ClientInv, CountsOK
<1>3. RowsOK'
  BY <1>1, <1>2, Served, RowWritten DEF GoodRequest
<1>4. asked[h].kind = "activate" /\ asked[h].cust # Client!Null
  BY <1>1, Served DEF GoodRequest, ActivationSteps
<1>. QED  BY <1>1, <1>2, <1>3, <1>4, StageMoves

LEMMA CheckSubscriptionStep ==
    ASSUME ClientInv, NEW h \in Handlers, Client!CheckSubscription(h)
    PROVE  ClientInv'
<1> DEFINE r == asked[h]
<1>1. r.at = "sub" /\ UNCHANGED <<custOf, subOf, ownerOf, known, bills>>
  BY DEF Client!CheckSubscription, Client!At, Client!remote
<1>2. Grows /\ RemoteOK' /\ RowsOK'
  BY <1>1, RemoteRests, RowsRest
<1>3. r.kind = "activate" /\ r.cust # Client!Null
  BY <1>1, Served DEF GoodRequest, ActivationSteps
<1>4. bad' \in 0 .. MaxBad
  <2>1. CASE Client!IsSet(r.sub)
    <3>1. PICK reply \in Client!GetSubscription(r.sub) : Client!Counts(reply)
      BY <2>1 DEF Client!CheckSubscription
    <3>. QED  BY <3>1, BadCounts DEF Client!GetSubscription
  <2>2. CASE ~Client!IsSet(r.sub)
    BY <2>2 DEF Client!CheckSubscription, ClientInv, CountsOK
  <2>. QED  BY <2>1, <2>2
<1>5. \/ \E error : Client!Respond(h, Client!ActivateStatus(error), {})
      \/ Client!Continue(h, [r EXCEPT !.at = "subscribe"])
  BY DEF Client!CheckSubscription
<1>6. CASE \E error : Client!Respond(h, Client!ActivateStatus(error), {})
  BY <1>2, <1>3, <1>4, <1>6, ErrorStep, ActivateError, ActivateIsNoPayment
<1>7. CASE Client!Continue(h, [r EXCEPT !.at = "subscribe"])
  BY <1>2, <1>3, <1>4, <1>7, StageMoves
<1>. QED  BY <1>5, <1>6, <1>7

LEMMA SubscribeStep ==
    ASSUME ClientInv, NEW h \in Handlers, Client!Subscribe(h)
    PROVE  ClientInv'
<1> DEFINE r == asked[h]
<1>1. r.at = "subscribe" /\ UNCHANGED <<custOf, subOf, ownerOf, known, bills>>
  BY DEF Client!Subscribe, Client!At, Client!remote
<1>2. Grows /\ RemoteOK' /\ RowsOK'
  BY <1>1, RemoteRests, RowsRest
<1>3. /\ r \in Client!Request /\ r.kind = "activate" /\ r.cust # Client!Null
      /\ GoodRequest(r, ownerOf, bills)
  BY <1>1, Served DEF GoodRequest, ActivationSteps
<1>4. PICK reply \in Client!CreateSubscription(r.cust) :
        /\ Client!Counts(reply)
        /\ IF Client!DoRequest(reply) = Client!Failed
           THEN Client!Respond(h, Client!ActivateStatus("other"), {})
           ELSE Client!Continue(h, [r EXCEPT !.at = "saveSub",
                    !.sub = Client!ParseSubscription(Client!DoRequest(reply), r.cust)])
  BY DEF Client!Subscribe
<1>5. bad' \in 0 .. MaxBad
  BY <1>4, BadCounts DEF Client!CreateSubscription
<1>6. CASE Client!Respond(h, Client!ActivateStatus("other"), {})
  BY <1>2, <1>3, <1>5, <1>6, ErrorStep, ActivateError, ActivateIsNoPayment
<1> DEFINE x == Client!ParseSubscription(Client!DoRequest(reply), r.cust)
           n == [r EXCEPT !.at = "saveSub", !.sub = x]
<1>7. CASE Client!Continue(h, n)
  <2>1. x \in Client!Ref /\ Really(ownerOf, x, r.tenant)
    BY <1>3, ParsedIsAsked DEF GoodRequest
  <2> HIDE DEF x
  <2>2. /\ n \in Client!Request /\ n.tenant = r.tenant /\ n.kind = r.kind /\ n.cust = r.cust
        /\ n.at = "saveSub" /\ n.sub = x /\ n.found = r.found
    BY <1>3, <2>1 DEF Client!Request
  <2> HIDE DEF n
  <2>3. GoodRequest(n, ownerOf, bills)
    BY <1>3, <2>1, <2>2 DEF GoodRequest, Really, ActivationSteps
  <2>4. GoodRequest(n, ownerOf', bills')
    BY <1>2, <2>2, <2>3, RequestStays
  <2>. QED  BY <1>2, <1>5, <1>7, <2>2, <2>4, ContinueStep
<1>. QED  BY <1>4, <1>6, <1>7

LEMMA SaveSubscriptionStep ==
    ASSUME ClientInv, NEW h \in Handlers, Client!SaveSubscription(h)
    PROVE  ClientInv'
<1> DEFINE r == asked[h]
<1>1. /\ r.at = "saveSub"
      /\ custOf' = [custOf EXCEPT ![r.tenant] = r.cust]
      /\ subOf' = [subOf EXCEPT ![r.tenant] = r.sub]
      /\ Client!Respond(h, 200, {r.cust, r.sub})
      /\ UNCHANGED <<ownerOf, known, bills, bad>>
  BY DEF Client!SaveSubscription, Client!At, Client!remote
<1>2. Grows /\ RemoteOK' /\ bad' \in 0 .. MaxBad
  BY <1>1, RemoteRests DEF ClientInv, CountsOK
<1>3. RowsOK'
  BY <1>1, <1>2, Served, RowWritten DEF GoodRequest
<1>4. /\ r.kind = "activate" /\ {r.cust, r.sub} \in SUBSET Client!Ref
      /\ Really(ownerOf, r.cust, r.tenant) /\ Really(ownerOf, r.sub, r.tenant)
  BY <1>1, Served DEF GoodRequest, ActivationSteps, Really
<1>5. \A c \in {r.cust, r.sub} : Really(ownerOf', c, r.tenant)
  BY <1>2, <1>4, Served, TenantStays DEF Really
<1> DEFINE f == {r.cust, r.sub}
<1>6. Client!Respond(h, 200, f) /\ f \in SUBSET Client!Ref
      /\ \A c \in f : Really(ownerOf', c, r.tenant)
  BY <1>1, <1>4, <1>5
<1> HIDE DEF f
<1>. QED  BY <1>2, <1>3, <1>4, <1>6, RespondStep, ActivateIsNoPayment

(* An answer that shows a request's own objects, and is not of a payment.  *)
LEMMA ShowStep ==
    ASSUME ClientInv, NEW h \in Handlers, NEW f \in SUBSET Client!Ref,
           Client!Respond(h, 200, f), Grows, RemoteOK', RowsOK', bad' \in 0 .. MaxBad,
           asked[h].kind \notin Client!PaymentKinds,
           \A c \in f : Really(ownerOf, c, asked[h].tenant)
    PROVE  ClientInv'
<1>1. \A c \in f : Really(ownerOf', c, asked[h].tenant)
  BY Served, TenantStays DEF Really
<1>. QED  BY <1>1, RespondStep

LEMMA BillingInfoStep ==
    ASSUME ClientInv, NEW h \in Handlers, Client!GetBillingInfo(h)
    PROVE  ClientInv'
<1> DEFINE r == asked[h]
<1>1. r.at = "read" /\ r.kind = "info" /\ UNCHANGED <<custOf, subOf, ownerOf, known, bills>>
  BY DEF Client!GetBillingInfo, Client!At, Client!remote
<1>2. Grows /\ RemoteOK' /\ RowsOK'
  BY <1>1, RemoteRests, RowsRest
<1>3. r \in Client!Request /\ GoodRequest(r, ownerOf, bills)
  BY Served
<1>4. CASE Client!IsSet(r.cust)
  <2>1. PICK reply \in Client!GetCustomer(r.cust) :
          /\ Client!Counts(reply)
          /\ IF Client!DoRequest(reply) = Client!Failed THEN Client!Respond(h, 500, {})
             ELSE Client!Continue(h, [r EXCEPT !.at = "customer",
                      !.found = {Client!ParseCustomer(Client!DoRequest(reply), r.cust)}])
    BY <1>4 DEF Client!GetBillingInfo
  <2>2. bad' \in 0 .. MaxBad
    BY <2>1, BadCounts DEF Client!GetCustomer
  <2>3. CASE Client!Respond(h, 500, {})
    BY <1>1, <1>2, <2>2, <2>3, ErrorStep, ActivateIsNoPayment
  <2> DEFINE f == {Client!ParseCustomer(Client!DoRequest(reply), r.cust)}
             n == [r EXCEPT !.at = "customer", !.found = f]
  <2>4. CASE Client!Continue(h, n)
    <3>1. f \in SUBSET Client!Ref /\ \A c \in f : Really(ownerOf, c, r.tenant)
      BY <1>3, <1>4, ParsedIsAsked DEF GoodRequest, Client!IsSet
    <3> HIDE DEF f
    <3>2. /\ n \in Client!Request /\ n.tenant = r.tenant /\ n.kind = r.kind
          /\ n.cust = r.cust /\ n.at = "customer" /\ n.sub = r.sub /\ n.found = f
      BY <1>3, <3>1 DEF Client!Request
    <3> HIDE DEF n
    <3>3. GoodRequest(n, ownerOf, bills)
      BY <1>1, <1>3, <3>1, <3>2 DEF GoodRequest, ActivationSteps
    <3>4. GoodRequest(n, ownerOf', bills')
      BY <1>2, <3>2, <3>3, RequestStays
    <3>. QED  BY <1>2, <2>2, <2>4, <3>2, <3>4, ContinueStep
  <2>. QED  BY <2>1, <2>3, <2>4
<1>5. CASE ~Client!IsSet(r.cust)
  <2>1. Client!Continue(h, [r EXCEPT !.at = "customer"]) /\ bad' \in 0 .. MaxBad
    BY <1>5 DEF Client!GetBillingInfo, ClientInv, CountsOK
  <2>. QED  BY <1>1, <1>2, <2>1, StageMoves
<1>. QED  BY <1>4, <1>5

LEMMA BillingSubscriptionStep ==
    ASSUME ClientInv, NEW h \in Handlers, Client!BillingSubscription(h)
    PROVE  ClientInv'
<1> DEFINE r == asked[h]
<1>1. r.at = "customer" /\ UNCHANGED <<custOf, subOf, ownerOf, known, bills>>
  BY DEF Client!BillingSubscription, Client!At, Client!remote
<1>2. Grows /\ RemoteOK' /\ RowsOK'
  BY <1>1, RemoteRests, RowsRest
<1>3. /\ r.kind = "info" /\ r.found \in SUBSET Client!Ref
      /\ GoodRequest(r, ownerOf, bills)
      /\ \A c \in r.found : Really(ownerOf, c, r.tenant)
  BY <1>1, Served DEF GoodRequest
<1>4. CASE Client!IsSet(r.sub)
  <2>1. PICK reply \in Client!GetSubscription(r.sub) :
          /\ Client!Counts(reply)
          /\ IF Client!DoRequest(reply) = Client!Failed THEN Client!Respond(h, 500, {})
             ELSE Client!Respond(h, 200, r.found \cup
                      {Client!ParseSubscription(Client!DoRequest(reply), r.sub)})
    BY <1>4 DEF Client!BillingSubscription
  <2>2. bad' \in 0 .. MaxBad
    BY <2>1, BadCounts DEF Client!GetSubscription
  <2>3. CASE Client!Respond(h, 500, {})
    BY <1>2, <1>3, <2>2, <2>3, ErrorStep, ActivateIsNoPayment
  <2> DEFINE x == Client!ParseSubscription(Client!DoRequest(reply), r.sub)
             f == r.found \cup {x}
  <2>4. CASE Client!Respond(h, 200, f)
    <3>1. x \in Client!Ref /\ Really(ownerOf, x, r.tenant)
      BY <1>3, <1>4, ParsedIsAsked DEF GoodRequest, Client!IsSet
    <3> HIDE DEF x
    <3>2. f \in SUBSET Client!Ref /\ \A c \in f : Really(ownerOf, c, r.tenant)
      BY <1>3, <3>1
    <3> HIDE DEF f
    <3>. QED  BY <1>2, <1>3, <2>2, <2>4, <3>2, ShowStep, ActivateIsNoPayment
  <2>. QED  BY <2>1, <2>3, <2>4
<1>5. CASE ~Client!IsSet(r.sub)
  <2>1. Client!Respond(h, 200, r.found) /\ bad' \in 0 .. MaxBad
    BY <1>5 DEF Client!BillingSubscription, ClientInv, CountsOK
  <2>. QED  BY <1>2, <1>3, <2>1, ShowStep, ActivateIsNoPayment
<1>. QED  BY <1>4, <1>5

LEMMA PaymentHistoryStep ==
    ASSUME ClientInv, NEW h \in Handlers, Client!GetPaymentHistory(h)
    PROVE  ClientInv'
<1> DEFINE r == asked[h]
<1>1. r.kind = "payments" /\ UNCHANGED <<custOf, subOf, ownerOf, known, bills>>
  BY DEF Client!GetPaymentHistory, Client!remote
<1>2. Grows /\ RemoteOK' /\ RowsOK'
  BY <1>1, RemoteRests, RowsRest
<1>3. /\ r.cust \in Client!Ref /\ OfTenant(ownerOf, r.cust, r.tenant)
  BY Served DEF GoodRequest
<1>4. CASE Client!IsSet(r.cust)
  <2>1. PICK reply \in Client!Replies("list") :
          /\ Client!Counts(reply)
          /\ Client!Respond(h, 500, {}) \/ Client!Respond(h, 200, {r.cust})
    BY <1>4 DEF Client!GetPaymentHistory
  <2>2. bad' \in 0 .. MaxBad
    BY <2>1, BadCounts
  <2>3. CASE Client!Respond(h, 500, {})
    BY <1>1, <1>2, <2>2, <2>3, ErrorStep, ActivateIsNoPayment
  <2>4. CASE Client!Respond(h, 200, {r.cust})
    <3> DEFINE f == {r.cust}
    <3>1. f \in SUBSET Client!Ref /\ (\A c \in f : Really(ownerOf, c, r.tenant))
          /\ Client!Respond(h, 200, f)
      BY <1>3, <1>4, <2>4 DEF Really, Client!IsSet
    <3> HIDE DEF f
    <3>. QED  BY <1>1, <1>2, <2>2, <3>1, ShowStep, ActivateIsNoPayment
  <2>. QED  BY <2>1, <2>3, <2>4
<1>5. CASE ~Client!IsSet(r.cust)
  <2>1. Client!Respond(h, 200, {}) /\ bad' \in 0 .. MaxBad
    BY <1>5 DEF Client!GetPaymentHistory, ClientInv, CountsOK
  <2>. QED  BY <1>1, <1>2, <2>1, ShowStep, ActivateIsNoPayment
<1>. QED  BY <1>4, <1>5

(* tenantPayment: what is not NoBill is the payment, and the tenant's.     *)
LEMMA TenantPaymentIsOwn ==
    ASSUME ClientInv, NEW r \in Client!Request, GoodRequest(r, ownerOf, bills),
           r.id \in Payments, NEW body, Client!TenantPayment(r, body) # Client!NoBill
    PROVE  /\ Client!TenantPayment(r, body) = bills[r.id]
           /\ BillOf(ownerOf, bills, r.id, r.tenant)
<1>1. /\ Client!IsSet(r.cust) /\ Client!ParsePayment(body, r.id).cust = r.cust
      /\ Client!TenantPayment(r, body) = Client!ParsePayment(body, r.id)
  BY DEF Client!TenantPayment
<1>2. body = "object"
  BY <1>1 DEF Client!ParsePayment, Client!IsSet
<1>3. Client!ParsePayment(body, r.id) = bills[r.id]
  BY <1>2 DEF Client!ParsePayment
<1>4. r.cust \in Customers /\ ownerOf[r.cust] = r.tenant
  BY <1>1 DEF GoodRequest, OfTenant, Client!IsSet, Client!Ref
<1>. QED  BY <1>1, <1>3, <1>4 DEF BillOf

LEMMA PaymentLinkStep ==
    ASSUME ClientInv, NEW h \in Handlers, Client!PaymentLink(h)
    PROVE  ClientInv'
<1> DEFINE r == asked[h]
<1>1. /\ r.at = "read" /\ r.kind \in Client!PaymentKinds
      /\ UNCHANGED <<custOf, subOf, ownerOf, known, bills>>
  BY DEF Client!PaymentLink, Client!At, Client!remote
<1>2. Grows /\ RemoteOK' /\ RowsOK'
  BY <1>1, RemoteRests, RowsRest
<1>3. r \in Client!Request /\ GoodRequest(r, ownerOf, bills) /\ r.id \in Payments
  BY <1>1, Served DEF GoodRequest
<1>4. PICK reply \in Client!GetPayment(r.id) :
        /\ Client!Counts(reply)
        /\ LET p == Client!TenantPayment(r, Client!DoRequest(reply)) IN
           IF p = Client!NoBill \/ (r.kind \in Client!LinkKinds /\ r.kind \notin p.links)
           THEN Client!Respond(h, Client!PaymentStatus("payment not found"), {})
           ELSE IF r.kind \in Client!LinkKinds THEN Client!Respond(h, 200, {p.cust})
           ELSE Client!Continue(h, [r EXCEPT !.at = "pix"])
  BY DEF Client!PaymentLink
<1>5. bad' \in 0 .. MaxBad
  BY <1>4, BadCounts DEF Client!GetPayment
<1> DEFINE p == Client!TenantPayment(r, Client!DoRequest(reply))
           none == p = Client!NoBill \/ (r.kind \in Client!LinkKinds /\ r.kind \notin p.links)
<1>6. CASE Client!Respond(h, Client!PaymentStatus("payment not found"), {})
  <2>1. Client!PaymentStatus("payment not found") = 404
    BY DEF Client!PaymentStatus
  <2>2. Client!Respond(h, 404, {})
    BY <1>6, <2>1
  <2>. QED  BY <1>2, <1>5, <2>2, ErrorStep
<1>7. CASE ~none /\ r.kind \in Client!LinkKinds /\ Client!Respond(h, 200, {p.cust})
  <2>1. /\ p = bills[r.id] /\ BillOf(ownerOf, bills, r.id, r.tenant)
        /\ r.kind \in bills[r.id].links
    BY <1>3, <1>7, TenantPaymentIsOwn
  <2> DEFINE f == {p.cust}
  <2>2. /\ f \in SUBSET Client!Ref /\ \A c \in f : Really(ownerOf, c, r.tenant)
        /\ Client!Respond(h, 200, f)
    BY <1>7, <2>1, ClientAssumption
    DEF BillOf, Really, OfTenant, Client!Ref, Client!Null
  <2> HIDE DEF f, p
  <2>3. \A c \in f : Really(ownerOf', c, r.tenant)
    BY <1>2, <2>2, Served, TenantStays DEF Really
  <2>4. BillOf(ownerOf', bills', r.id, r.tenant) /\ r.kind \in bills'[r.id].links
    BY <1>1, <2>1, <1>2, Served, BillStays
  <2>. QED  BY <1>2, <1>5, <2>2, <2>3, <2>4, RespondStep
<1> DEFINE n == [r EXCEPT !.at = "pix"]
<1>8. CASE ~none /\ r.kind \notin Client!LinkKinds /\ Client!Continue(h, n)
  <2>1. BillOf(ownerOf, bills, r.id, r.tenant)
    BY <1>3, <1>8, TenantPaymentIsOwn
  <2>2. r.kind = "pix"
    BY <1>1, <1>8, ActivateIsNoPayment
  <2>3. /\ n \in Client!Request /\ n.tenant = r.tenant /\ n.kind = r.kind /\ n.id = r.id
        /\ n.cust = r.cust /\ n.at = "pix" /\ n.sub = r.sub /\ n.found = r.found
    BY <1>3 DEF Client!Request
  <2>4. Client!Continue(h, n)
    BY <1>8
  <2> HIDE DEF n, none, p
  <2>5. GoodRequest(n, ownerOf, bills)
    BY <1>3, <2>1, <2>2, <2>3 DEF GoodRequest, ActivationSteps
  <2>6. GoodRequest(n, ownerOf', bills')
    BY <1>2, <2>3, <2>5, RequestStays
  <2>. QED  BY <1>2, <1>5, <2>3, <2>4, <2>6, ContinueStep
<1>9. \/ Client!Respond(h, Client!PaymentStatus("payment not found"), {})
      \/ ~none /\ r.kind \in Client!LinkKinds /\ Client!Respond(h, 200, {p.cust})
      \/ ~none /\ r.kind \notin Client!LinkKinds /\ Client!Continue(h, n)
  <2> HIDE DEF n, p, r
  <2>1. CASE none
    BY <1>4, <2>1 DEF p, r
  <2>2. CASE ~none /\ r.kind \in Client!LinkKinds
    BY <1>4, <2>2 DEF p, r
  <2>3. CASE ~none /\ r.kind \notin Client!LinkKinds
    BY <1>4, <2>3 DEF p, r, n
  <2>. QED  BY <2>1, <2>2, <2>3
<1>. QED  BY <1>6, <1>7, <1>8, <1>9

LEMMA PixStep ==
    ASSUME ClientInv, NEW h \in Handlers, Client!PixQRCode(h)
    PROVE  ClientInv'
<1> DEFINE r == asked[h]
<1>1. r.at = "pix" /\ UNCHANGED <<custOf, subOf, ownerOf, known, bills>>
  BY DEF Client!PixQRCode, Client!At, Client!remote
<1>2. Grows /\ RemoteOK' /\ RowsOK'
  BY <1>1, RemoteRests, RowsRest
<1>3. /\ r.kind = "pix" /\ BillOf(ownerOf, bills, r.id, r.tenant) /\ r.tenant \in Tenants
  BY <1>1, Served DEF GoodRequest
<1>4. PICK reply \in Client!GetPayment(r.id) :
        /\ Client!Counts(reply)
        /\ \/ Client!Respond(h, Client!PaymentStatus("other"), {})
           \/ Client!Respond(h, 200, {bills[r.id].cust})
  BY DEF Client!PixQRCode
<1>5. bad' \in 0 .. MaxBad
  BY <1>4, BadCounts DEF Client!GetPayment
<1>6. BillOf(ownerOf', bills', r.id, r.tenant) /\ r.kind \notin Client!LinkKinds
  BY <1>2, <1>3, BillStays, ActivateIsNoPayment
<1> DEFINE f == {bills[r.id].cust}
<1>7. CASE Client!Respond(h, Client!PaymentStatus("other"), {})
  <2>1. Client!PaymentStatus("other") = 500
    BY DEF Client!PaymentStatus
  <2>. QED  BY <1>2, <1>5, <1>6, <1>7, <2>1, RespondStep
<1>8. CASE Client!Respond(h, 200, f)
  <2>1. /\ f \in SUBSET Client!Ref /\ \A c \in f : Really(ownerOf, c, r.tenant)
    BY <1>3, ClientAssumption DEF BillOf, Really, OfTenant, Client!Ref, Client!Null
  <2> HIDE DEF f
  <2>2. \A c \in f : Really(ownerOf', c, r.tenant)
    BY <1>2, <1>3, <2>1, TenantStays DEF Really
  <2>. QED  BY <1>2, <1>5, <1>6, <1>8, <2>1, <2>2, RespondStep
<1>. QED  BY <1>4, <1>7, <1>8

(* What happens at the gateway, with no request taking part.               *)
LEMMA GatewayActs ==
    ASSUME ClientInv, Grows, RemoteOK', UNCHANGED <<custOf, subOf, asked, shown, bad, requests>>
    PROVE  ClientInv'
<1>1. RowsOK'
  BY RowsRest
<1>2. AskedOK'
  BY RequestStays DEF ClientInv, AskedOK
<1>3. ShownOK'
  BY AnswerStays DEF ClientInv, ShownOK
<1>. QED  BY <1>1, <1>2, <1>3 DEF ClientInv, CountsOK

LEMMA BillStep == ASSUME ClientInv, Client!Billed PROVE ClientInv'
<1>1. PICK p \in Payments, c \in known, links \in {{"invoice"}, Client!LinkKinds} :
        /\ bills[p] = Client!NoBill
        /\ bills' = [bills EXCEPT ![p] = [cust |-> c, links |-> links]]
        /\ UNCHANGED <<custOf, subOf, ownerOf, known, asked, shown, bad, requests>>
  BY DEF Client!Billed
<1>2. links \in SUBSET Client!LinkKinds
  BY ActivateIsNoPayment
<1>3. [cust |-> c, links |-> links] \in Client!Bill
  BY <1>2 DEF Client!Bill, ClientInv, RemoteOK
<1>4. RemoteOK'
  BY <1>1, <1>3 DEF ClientInv, RemoteOK
<1>5. Grows
  BY <1>1 DEF Grows, ClientInv, RemoteOK
<1>. QED  BY <1>1, <1>4, <1>5, GatewayActs

LEMMA RemovedStep == ASSUME ClientInv, Client!Removed PROVE ClientInv'
<1>1. /\ known' \subseteq known
      /\ UNCHANGED <<custOf, subOf, ownerOf, bills, asked, shown, bad, requests>>
  BY DEF Client!Removed
<1>. QED  BY <1>1, GatewayActs DEF ClientInv, RemoteOK, Grows

LEMMA ClientStep == ClientInv /\ Client!GatewayNext => ClientInv'
BY AskStep, FindCustomerStep, CreateCustomerStep, SaveCustomerStep,
   CheckSubscriptionStep, SubscribeStep, SaveSubscriptionStep, BillingInfoStep,
   BillingSubscriptionStep, PaymentHistoryStep, PaymentLinkStep, PixStep,
   BillStep, RemovedStep DEF Client!GatewayNext

LEMMA ClientInit == Client!GatewayInit => ClientInv
<1> SUFFICES ASSUME Client!GatewayInit PROVE ClientInv
  OBVIOUS
<1>1. Client!Null \in Client!Ref /\ Client!Null \notin Customers
  BY ClientAssumption DEF Client!Ref, Client!Null
<1>2. RemoteOK
  BY DEF Client!GatewayInit, RemoteOK
<1>3. RowsOK
  BY <1>1 DEF Client!GatewayInit, RowsOK, OfTenant
<1>4. CountsOK
  BY ClientAssumption DEF Client!GatewayInit, CountsOK
<1>5. /\ Client!Idle \in Client!Request /\ Client!Idle.found = {}
      /\ Client!Idle.cust = Client!Null /\ Client!Idle.sub = Client!Null
      /\ Client!Idle.at = "idle"
  BY ClientAssumption
  DEF Client!Idle, Client!Request, Client!Kinds, Client!Ids, Client!Ref, Client!Null
<1>6. AskedOK
  <2>1. GoodRequest(Client!Idle, ownerOf, bills)
    BY <1>1, <1>5 DEF GoodRequest, OfTenant, ActivationSteps
  <2>. QED  BY <1>5, <2>1 DEF Client!GatewayInit, AskedOK
<1>7. ShownOK
  <2>1. /\ shown = [tenant |-> 1, kind |-> "info", id |-> 0, status |-> 404, found |-> {}]
    BY DEF Client!GatewayInit
  <2>2. shown \in Client!Answer
    BY <2>1, ClientAssumption DEF Client!Answer, Client!Kinds, Client!Ids
  <2>. QED  BY <2>1, <2>2 DEF ShownOK, GoodAnswer
<1>. QED  BY <1>2, <1>3, <1>4, <1>6, <1>7 DEF ClientInv

LEMMA ClientInvMeans == ClientInv => OwnBilling
<1> SUFFICES ASSUME ClientInv PROVE OwnBilling
  OBVIOUS
<1>1. Client!GatewayTypeOK
  BY DEF ClientInv, RemoteOK, RowsOK, CountsOK, AskedOK, ShownOK, Client!GatewayTypeOK
<1>2. /\ \A c \in shown.found : Really(ownerOf, c, shown.tenant)
      /\ shown.kind \in Client!PaymentKinds /\ shown.status # 404 =>
             BillOf(ownerOf, bills, shown.id, shown.tenant)
      /\ shown.kind \in Client!LinkKinds /\ shown.status = 200 =>
             shown.kind \in bills[shown.id].links
  BY ActivateIsNoPayment DEF ClientInv, ShownOK, GoodAnswer
<1>3. Client!OwnBilling
  <2>1. \A c \in shown.found \ {Client!Blank} : c \in Customers /\ ownerOf[c] = shown.tenant
    BY <1>2 DEF Really, OfTenant, Client!Ref
  <2>2. shown.kind \in Client!PaymentKinds /\ shown.status # 404 =>
            /\ shown.id # 0 /\ bills[shown.id].cust \in Customers
            /\ ownerOf[bills[shown.id].cust] = shown.tenant
    BY <1>2, ClientAssumption DEF BillOf
  <2>. QED  BY <2>1, <2>2 DEF Client!OwnBilling
<1>4. Client!LinksAreThere
  BY <1>2 DEF Client!LinksAreThere
<1>. QED  BY <1>1, <1>3, <1>4 DEF OwnBilling

(* AsaasProvider, tenantPayment and the billing handlers: whoever asks for *)
(* what, whichever requests overlap and whichever call fails or comes back *)
(* unreadable, what a tenant is shown of the gateway is about customers    *)
(* that were created for it, and a link that is answered is one that the   *)
(* payment has.                                                            *)
THEOREM TenantsSeeTheirOwn == MCSpec => []OwnBilling
<1>1. MCInit => ClientInv
  BY ClientInit DEF MCInit
<1>2. ClientInv /\ [MCNext]_mcvars => ClientInv'
  <2> SUFFICES ASSUME ClientInv, [MCNext]_mcvars PROVE ClientInv'
    OBVIOUS
  <2>1. \/ Client!GatewayNext
        \/ UNCHANGED <<custOf, subOf, ownerOf, known, bills, asked, shown, bad, requests>>
    BY DEF MCNext, mcvars
  <2>2. ASSUME UNCHANGED <<custOf, subOf, ownerOf, known, bills, asked, shown, bad, requests>>
        PROVE  ClientInv'
    <3>1. Grows /\ RemoteOK'
      BY <2>2, RemoteRests
    <3>. QED  BY <2>2, <3>1, GatewayActs
  <2>. QED  BY <2>1, <2>2, ClientStep
<1>. QED  BY <1>1, <1>2, ClientInvMeans, PTL DEF MCSpec

=============================================================================
