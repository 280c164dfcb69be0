---------------------------- MODULE TenantBilling ----------------------------
(***************************************************************************)
(* The billing life of one tenant: the row of tenants, the subscriptions   *)
(* the payment gateway keeps for it, and everything that rewrites the row: *)
(* BillingUseCase (activate, change, cancel, the webhook handlers), the    *)
(* trial expiration job and the super admin's operations.                  *)
(*                                                                         *)
(* Each of them reads the whole row, works on its copy, calls the gateway  *)
(* in between, and writes the whole row back (TenantRepository.Update),    *)
(* with no transaction, lock or version around it: every read, gateway     *)
(* call and write below is a step of its own.                              *)
(***************************************************************************)
EXTENDS Integers, FiniteSets

CONSTANTS
    Workers,    \* goroutines that may work on the tenant at the same time
    Subs,       \* ids the gateway can give to subscriptions
    None,       \* payment_subscription_id IS NULL
    Limits,     \* Limits[plan]: max_users of the plan
    Price,      \* Price[plan]: its monthly value
    MinCharge,  \* minChargeCents
    MaxOps,     \* bound on operations started (at most Cardinality(Subs)
                \* activations can complete)
    MaxTime,    \* bound on the clock
    MaxSeats    \* bound on the users of the tenant

Plans == {"trial", "starter", "pro"}
PaidPlans == {"starter", "pro"}

ASSUME BillingAssumption ==
    /\ None \notin Subs
    /\ Limits \in [Plans -> Nat]
    /\ Price \in [Plans -> Nat] /\ MinCharge \in Nat
    /\ MaxOps \in Nat /\ MaxTime \in Nat /\ MaxSeats \in Nat

VARIABLES
    tenant,   \* the row of the tenant
    dunned,   \* subscriptions with a stage 1 row in billing_dunning_events
    users,    \* rows of users of the tenant that are active
    subs,     \* subs[s]: status of s at the gateway
    billed,   \* billed[s]: the plan whose value s charges
    events,   \* events about payments sent; each may arrive late, twice or
              \* never (events about subscriptions have no effect)
    task,     \* task[w]: what worker w is doing, with its copy of the row
    prorated, \* sum of the price differences in proration_credits
    charged,  \* payments charged for differences, in total
    moved,    \* sum of the price differences the gateway really applied
    now, ops,
    setting   \* what acts on the tenant, and how; it never changes

db == <<tenant, dunned, users>>
remote == <<subs, billed, events, charged, moved>>
vars == <<db, remote, task, prorated, now, ops, setting>>

-----------------------------------------------------------------------------
CustomerOps == {"activate", "change", "cancel", "webhook", "expireTrials"}
AdminOps == {"adminActivate", "adminPlan", "adminStatus", "adminExtend"}
Ops == CustomerOps \cup AdminOps

Setting ==
    [ops : SUBSET Ops,       \* the operations that are called
     moves : SUBSET {"overdue", "paid", "delete"},
                             \* what the gateway may do by itself
     faults : BOOLEAN,       \* may a call to the database or the gateway fail?
     serial : BOOLEAN]       \* do operations come one after the other?

Statuses == {"TRIAL", "ACTIVE", "SUSPENDED", "PENDING_PAYMENT", "CANCELLED"}
SubStatuses == {"none", "ACTIVE", "OVERDUE", "CANCELLED"}

Row == [status : Statuses, plan : Plans, max : Nat, seats : Int,
        cust : BOOLEAN,           \* payment_customer_id is set
        sub : Subs \cup {None},   \* payment_subscription_id
        cancelledAt : BOOLEAN,    \* cancelled_at is set
        trialEnd : Nat]           \* trial_expires_at

(* The row Signup commits: seat_count is inserted as 1 and the trigger of  *)
(* users adds the owner again.                                             *)
SignedUp == [status |-> "TRIAL", plan |-> "trial", max |-> Limits["trial"],
             seats |-> 2, cust |-> FALSE, sub |-> None,
             cancelledAt |-> FALSE, trialEnd |-> 1]

Event == [type : {"received", "overdue"}, sub : Subs]

Steps == {"idle", "createCustomer", "checkSub", "createSub", "getSub",
          "prorate", "charge", "updateSub", "cancelSub", "dunning", "save"}

Task == [kind : Ops \cup {"none"}, at : Steps, row : Row,
         plan : Plans, old : Plans]

Idle == [kind |-> "none", at |-> "idle", row |-> SignedUp,
         plan |-> "trial", old |-> "trial"]

TypeOK ==
    /\ tenant \in Row
    /\ dunned \in SUBSET Subs
    /\ users \in Int
    /\ subs \in [Subs -> SubStatuses]
    /\ billed \in [Subs -> Plans]
    /\ events \in SUBSET Event
    /\ task \in [Workers -> Task]
    /\ prorated \in Int /\ moved \in Int /\ charged \in Nat
    /\ now \in Nat /\ ops \in Nat /\ setting \in Setting

Init ==
    /\ tenant = SignedUp
    /\ dunned = {}
    /\ users = 1
    /\ subs = [s \in Subs |-> "none"]
    /\ billed = [s \in Subs |-> "trial"]
    /\ events = {}
    /\ task = [w \in Workers |-> Idle]
    /\ prorated = 0 /\ moved = 0 /\ charged = 0
    /\ now = 0 /\ ops = 0 /\ setting \in Setting

-----------------------------------------------------------------------------
(* A worker takes up an operation by reading the row; an operation whose   *)
(* first checks refuse it changes nothing and is not started.              *)
Begin(w, kind, step, r, plan) ==
    /\ task[w].at = "idle"
    /\ kind \in setting.ops
    /\ ops < MaxOps
    /\ ops' = ops + 1
    /\ task' = [task EXCEPT ![w] = [kind |-> kind, at |-> step, row |-> r,
                                    plan |-> plan, old |-> "trial"]]
    /\ UNCHANGED <<db, remote, prorated, now>>

Continue(w, step) == task' = [task EXCEPT ![w].at = step]
ContinueWith(w, step, r) ==
    task' = [task EXCEPT ![w].at = step, ![w].row = r]
Finish(w) == task' = [task EXCEPT ![w] = Idle]

At(w, step) == task[w].at = step /\ UNCHANGED <<now, ops>>

(* The row of a tenant on a plan: the seats move with it.                  *)
OnPlan(r, plan) == [r EXCEPT !.plan = plan, !.max = Limits[plan]]

-----------------------------------------------------------------------------
(* ActivatePlan.                                                           *)
Activate(w) ==
    \E plan \in PaidPlans :
        Begin(w, "activate", IF tenant.cust THEN "checkSub" ELSE "createCustomer",
              tenant, plan)

(* Mutant of CreateCustomer: the id is stored but not kept in the copy.    *)
CreateCustomerForgotten(w) ==
    /\ At(w, "createCustomer")
    /\ tenant' = [tenant EXCEPT !.cust = TRUE]
    /\ Continue(w, "checkSub")
    /\ UNCHANGED <<dunned, users, remote, prorated>>

(* CreateCustomer and the save of its id.                                  *)
CreateCustomer(w) ==
    LET r == [task[w].row EXCEPT !.cust = TRUE] IN
    /\ At(w, "createCustomer")
    /\ tenant' = r
    /\ ContinueWith(w, "checkSub", r)
    /\ UNCHANGED <<dunned, users, remote, prorated>>

CheckSubscription(w) ==
    LET s == task[w].row.sub IN
    /\ At(w, "checkSub")
    /\ IF s # None /\ subs[s] = "ACTIVE" THEN Finish(w)
                                         ELSE Continue(w, "createSub")
    /\ UNCHANGED <<db, remote, prorated>>

(* What ActivatePlan makes of its copy of the row, and a mutant: the limit *)
(* is left behind.                                                         *)
ActivatedOldLimit(r, s, plan) ==
    [r EXCEPT !.plan = plan, !.sub = s, !.status = "ACTIVE"]
Activated(r, s, plan) == [OnPlan(r, plan) EXCEPT !.sub = s, !.status = "ACTIVE"]

CreateSubscription(w) ==
    /\ At(w, "createSub")
    /\ \E s \in Subs :
          /\ subs[s] = "none"
          /\ subs' = [subs EXCEPT ![s] = "ACTIVE"]
          /\ billed' = [billed EXCEPT ![s] = task[w].plan]
          /\ ContinueWith(w, "save", Activated(task[w].row, s, task[w].plan))
    /\ UNCHANGED <<db, events, charged, moved, prorated>>

-----------------------------------------------------------------------------
(* ChangePlan.                                                             *)
ChangePlan(w) ==
    \E plan \in PaidPlans :
        /\ tenant.sub # None
        /\ tenant.seats <= Limits[plan]
        /\ Begin(w, "change", "getSub", tenant, plan)

(* GetSubscription: the value billed now is the old price.                 *)
GetSubscription(w) ==
    /\ At(w, "getSub")
    /\ task' = [task EXCEPT ![w].at = "prorate",
                            ![w].old = billed[task[w].row.sub]]
    /\ UNCHANGED <<db, remote, prorated>>

(* Mutant of Prorate: the old price is taken from the plan of the row.     *)
ProrateFromRow(w) ==
    /\ At(w, "prorate")
    /\ prorated' = prorated + Price[task[w].plan] - Price[task[w].row.plan]
    /\ Continue(w, "charge")
    /\ UNCHANGED <<db, remote>>

(* CalculateProration: the provider never fills the period, so it is the   *)
(* month that begins today, and the whole difference is due.               *)
Amount(t) == Price[t.plan] - Price[t.old]

(* The proration credit is on record before the change.                    *)
Prorate(w) ==
    /\ At(w, "prorate")
    /\ prorated' = prorated + Amount(task[w])
    /\ Continue(w, "charge")
    /\ UNCHANGED <<db, remote>>

(* CreatePayment, for amounts below the charge limit.  Its error is logged *)
(* and the change goes on.                                                 *)
Charge(w) ==
    LET amount == Amount(task[w]) IN
    /\ At(w, "charge")
    /\ \/ amount < -MinCharge /\ charged' = charged - amount
       \/ (amount >= -MinCharge \/ setting.faults) /\ UNCHANGED charged
    /\ Continue(w, "updateSub")
    /\ UNCHANGED <<db, subs, billed, events, moved, prorated>>

UpdateSubscription(w) ==
    LET s == task[w].row.sub IN
    /\ At(w, "updateSub")
    /\ billed' = [billed EXCEPT ![s] = task[w].plan]
    /\ moved' = moved + Price[task[w].plan] - Price[billed[s]]
    /\ ContinueWith(w, "save", OnPlan(task[w].row, task[w].plan))
    /\ UNCHANGED <<db, subs, events, charged, prorated>>

-----------------------------------------------------------------------------
(* CancelSubscription.                                                     *)
Cancel(w) ==
    /\ tenant.sub # None
    /\ Begin(w, "cancel", "cancelSub", tenant, "trial")

Cancelled(r) == [r EXCEPT !.status = "CANCELLED", !.cancelledAt = TRUE]

CancelSubscription(w) ==
    LET s == task[w].row.sub IN
    /\ At(w, "cancelSub")
    /\ subs' = [subs EXCEPT ![s] = "CANCELLED"]
    /\ ContinueWith(w, "save", Cancelled(task[w].row))
    /\ UNCHANGED <<db, billed, events, charged, moved, prorated>>

-----------------------------------------------------------------------------
(* processWebhookEvent: an event is looked up by its subscription and is   *)
(* ignored when no tenant has it.  The handlers look for the id in the     *)
(* payload's field "subscription", which a payment has; the payload of     *)
(* SUBSCRIPTION_DELETED and _UPDATED is the subscription itself, without   *)
(* that field, so handleSubscriptionDeleted and handleSubscriptionUpdated  *)
(* return at once and change nothing.                                      *)
PaymentReceived(w, e) ==
    /\ e.type = "received"
    /\ tenant.status \in {"SUSPENDED", "PENDING_PAYMENT"}
    /\ Begin(w, "webhook", "save", [tenant EXCEPT !.status = "ACTIVE"], "trial")

(* Mutant of PaymentOverdue: no dunning event.                             *)
OverdueUndunned(w, e) ==
    /\ e.type = "overdue"
    /\ Begin(w, "webhook", "save",
             [tenant EXCEPT !.status = "PENDING_PAYMENT"], "trial")

(* The dunning event is created before the row is saved.                   *)
PaymentOverdue(w, e) ==
    /\ e.type = "overdue"
    /\ Begin(w, "webhook", "dunning",
             [tenant EXCEPT !.status = "PENDING_PAYMENT"], "trial")

CreateDunning(w) ==
    /\ At(w, "dunning")
    /\ dunned' = dunned \cup {task[w].row.sub}
    /\ Continue(w, "save")
    /\ UNCHANGED <<tenant, users, remote, prorated>>

(* Mutant of HandleEvent: the tenant is not looked up by subscription.     *)
HandleAnyEvent(w) ==
    \E e \in events :
        \/ PaymentReceived(w, e)
        \/ PaymentOverdue(w, e)

HandleEvent(w) ==
    \E e \in events :
        /\ e.sub = tenant.sub
        /\ \/ PaymentReceived(w, e)
           \/ PaymentOverdue(w, e)

-----------------------------------------------------------------------------
(* GetExpiredTrials.                                                       *)
TrialIsExpired(r) == r.status = "TRIAL" /\ r.trialEnd <= now

(* TrialExpirationJob: select, then suspend one by one.                    *)
ExpireTrial(w) ==
    /\ TrialIsExpired(tenant)
    /\ Begin(w, "expireTrials", "save",
             [tenant EXCEPT !.status = "SUSPENDED"], "trial")

(* SuperAdminUseCase.                                                      *)
ActivateTenant(w) ==
    /\ tenant.status # "ACTIVE"
    /\ \E r \in {OnPlan(tenant, plan) : plan \in PaidPlans} \cup {tenant} :
          /\ r.plan # "trial"
          /\ Begin(w, "adminActivate", "save",
                   [r EXCEPT !.status = "ACTIVE"], "trial")

UpdateTenantPlan(w) ==
    \E plan \in Plans :
        /\ tenant.seats <= Limits[plan]
        /\ Begin(w, "adminPlan", "save", OnPlan(tenant, plan), "trial")

UpdateTenantStatus(w) ==
    \E status \in Statuses :
        Begin(w, "adminStatus", "save",
              IF status = "CANCELLED" THEN Cancelled(tenant)
              ELSE [tenant EXCEPT !.status = status], "trial")

ExtendTrial(w) ==
    /\ tenant.status # "ACTIVE"
    /\ LET base == IF tenant.trialEnd < now THEN now ELSE tenant.trialEnd IN
       Begin(w, "adminExtend", "save",
             [tenant EXCEPT !.trialEnd = base + 1, !.status = "TRIAL"], "trial")

-----------------------------------------------------------------------------
(* TenantRepository.Update: every column, from the worker's copy.          *)
Save(w) ==
    /\ At(w, "save")
    /\ tenant' = task[w].row
    /\ Finish(w)
    /\ UNCHANGED <<dunned, users, remote, prorated>>

(* Any call fails, or the process dies: what was done stays done.          *)
Fail(w) ==
    /\ setting.faults
    /\ task[w].at # "idle"
    /\ Finish(w)
    /\ UNCHANGED <<db, remote, prorated, now, ops>>

-----------------------------------------------------------------------------
(* The gateway (external): invoices of a live subscription fall due and    *)
(* are paid, and a subscription may be deleted there (an event that the    *)
(* handlers do not make out, see above).                                   *)
Live(s) == subs[s] \in {"ACTIVE", "OVERDUE"}

Move(s, status, told) ==
    /\ subs' = [subs EXCEPT ![s] = status]
    /\ events' = events \cup {[type |-> type, sub |-> s] : type \in told}
    /\ UNCHANGED <<db, billed, charged, moved, task, prorated, now, ops>>

InvoiceOverdue(s) ==
    /\ "overdue" \in setting.moves
    /\ subs[s] = "ACTIVE"
    /\ Move(s, "OVERDUE", {"overdue"})
InvoicePaid(s) ==
    /\ "paid" \in setting.moves
    /\ Live(s)
    /\ Move(s, "ACTIVE", {"received"})
DeletedAtGateway(s) ==
    /\ "delete" \in setting.moves
    /\ Live(s)
    /\ Move(s, "CANCELLED", {})

(* The trigger on users keeps seat_count, in the user's own statement.     *)
UserJoins ==
    /\ users < MaxSeats
    /\ users' = users + 1
    /\ tenant' = [tenant EXCEPT !.seats = @ + 1]
    /\ UNCHANGED <<dunned, remote, task, prorated, now, ops>>
UserLeaves ==
    /\ users > 1
    /\ users' = users - 1
    /\ tenant' = [tenant EXCEPT !.seats = @ - 1]
    /\ UNCHANGED <<dunned, remote, task, prorated, now, ops>>

Tick ==
    /\ now < MaxTime
    /\ now' = now + 1
    /\ UNCHANGED <<db, remote, task, prorated, ops>>

Billing(w) ==
    \/ Activate(w) \/ CreateCustomer(w) \/ CheckSubscription(w)
    \/ CreateSubscription(w)
    \/ ChangePlan(w) \/ GetSubscription(w) \/ Prorate(w) \/ Charge(w)
    \/ UpdateSubscription(w)
    \/ Cancel(w) \/ CancelSubscription(w)
    \/ HandleEvent(w) \/ CreateDunning(w)
Administration(w) ==
    \/ ExpireTrial(w)
    \/ ActivateTenant(w) \/ UpdateTenantPlan(w)
    \/ UpdateTenantStatus(w) \/ ExtendTrial(w)
Environment ==
    \/ \E s \in Subs : InvoiceOverdue(s) \/ InvoicePaid(s) \/ DeletedAtGateway(s)
    \/ UserJoins \/ UserLeaves
    \/ Tick

(* At most one operation is in progress.                                   *)
OneAtATime ==
    \A v, w \in Workers : task[v] # Idle /\ task[w] # Idle => v = w

Next ==
    /\ \/ \E w \in Workers :
             Billing(w) \/ Administration(w) \/ Save(w) \/ Fail(w)
       \/ Environment
    /\ setting.serial => OneAtATime'
    /\ UNCHANGED setting

Spec == Init /\ [][Next]_vars

-----------------------------------------------------------------------------
(* Every copy of the row there is: the stored one and the workers'.        *)
Copies == {tenant} \cup {task[w].row : w \in Workers}

(* The limit of users is the one of the plan, in the stored row and in     *)
(* every copy that may be written over it, whoever changed the plan.       *)
SeatsMatchPlan == \A r \in Copies : r.max = Limits[r.plan]

(* A subscription id the tenant holds was really given by the gateway, and *)
(* the tenant is its customer.                                             *)
SubscriptionIsReal ==
    \A r \in Copies : r.sub # None => subs[r.sub] # "none" /\ r.cust

(* Without an administrator's hand, a tenant is let in as ACTIVE (or kept  *)
(* PENDING_PAYMENT) only while it holds a subscription on a paid plan.     *)
ActiveIsSubscribed ==
    \A r \in Copies :
        r.status \in {"ACTIVE", "PENDING_PAYMENT"} =>
            r.sub # None /\ r.plan \in PaidPlans

(* When only overdue invoices make a tenant PENDING_PAYMENT, the dunning   *)
(* of its subscription was on record before, so a crash cannot lose it.    *)
PendingWasDunned ==
    tenant.status = "PENDING_PAYMENT" => tenant.sub \in dunned

(* Without an administrator's hand, whatever races and fails, a tenant is  *)
(* ACTIVE or PENDING_PAYMENT only with a subscription on a paid plan; and  *)
(* when an overdue invoice makes it PENDING_PAYMENT its dunning was on     *)
(* record before, so that neither a crash nor a race can lose it.          *)
CustomersAreBilled ==
    setting.ops \cap AdminOps = {} => ActiveIsSubscribed /\ PendingWasDunned

Quiet == \A w \in Workers : task[w] = Idle

(* What the tenant may use is what it pays for: with nothing in progress   *)
(* the plan of the row is the one its subscription bills.                  *)
PlanMatchesBilling ==
    Quiet /\ tenant.sub # None => tenant.plan = billed[tenant.sub]

(* The proration credits add up to the price changes that took place.      *)
ProrationAddsUp == Quiet => prorated = moved

(* A difference is charged for an upgrade and never for a downgrade.       *)
UpgradesAreCharged ==
    charged' # charged =>
        \E w \in Workers :
            /\ task[w].at = "charge"
            /\ Price[task[w].plan] > Price[task[w].old]

(* A tenant is billed by at most one subscription at a time.               *)
OneActiveSubscription ==
    Cardinality({s \in Subs : subs[s] = "ACTIVE"}) <= 1

(* One operation after the other, without a failure: the credits add up to *)
(* the price changes; the tenant has the plan it is billed for, unless an  *)
(* administrator changes it; and it is billed once, unless the gateway     *)
(* moves by itself.                                                        *)
SerialBilling ==
    setting.serial /\ ~setting.faults =>
        /\ ProrationAddsUp
        /\ setting.ops \cap AdminOps = {} => PlanMatchesBilling
        /\ setting.moves = {} => OneActiveSubscription

=============================================================================
