# Formal models of voltiq-server

voltiq-server is the back end, in Go, of a multi-tenant service in which electric
utilities import meter readings, compare the energy a transformer injects with what
its consuming units are billed, and are alerted to losses.  It is sold by
subscription through the payment gateway Asaas.  One process serves HTTP, runs a
scheduler of background jobs and keeps its state in PostgreSQL; several processes may
run against one database.

This directory holds TLA+ models of the parts whose correctness depends on the order
of steps: what may run at the same time, fail half way, arrive late or be read before
it changes.  TLC checks them on small instances; TLAPS proves the results listed under
*Theorems* for instances of any size.

    tlc -workers 2 -config MCWebhookInbox.cfg MCWebhookInbox    # any run: see PROJECT.json
    tlapm WebhookInboxProofs.tla

## 1. The system

Almost every use case has the same shape: it reads rows with one statement each,
works on its copies, and writes whole rows back, without a transaction, a row lock or
a version column.  `InTx` (internal/repository/database.go) exists and only the
insertion, the clearing and the removal of imports use it.  Three mechanisms guard
against concurrency: unique indexes where there are some, the advisory lock around
scheduled jobs, and the mutex of the in-memory cache.  The models therefore make every
statement and every call of a remote service a step of its own, and let any two
operations interleave between any two steps.

| Component (source) | State | Operations | Interacts with |
|---|---|---|---|
| Webhook inbox (`billing_usecase.go`, `webhook_repository.go`) | `payment_webhook_events` | HandleWebhook, RetryFailedWebhooks | gateway (deliveries, 200), tenant billing, scheduler |
| Tenant billing (`billing_usecase.go`, `super_admin_usecase.go`, `trial_expiration_job.go`) | row of `tenants`, `billing_proration_credits`, `billing_dunning_events` | ActivatePlan, ChangePlan, CancelSubscription, event handlers, trial expiration, four super admin operations | gateway (subscriptions), members (seat trigger), inbox |
| Summary cache (`summary_cache.go`) | entries, generation per tenant, goroutines that wait | Summaries, DashboardCache, Invalidate, InvalidateAll | repositories that write the network, dashboards |
| Alert delivery (`alert_usecase.go`, `alert_repository.go`) | `alerts`, in-memory queue | BalanceCalculated, delivery workers, RetryFailed | balance, e-mail and WhatsApp, scheduler |
| Imports (`import_usecase.go`, the reading repositories) | `imports`, `transformer_readings`, `uc_readings` | Upload, Retry, Delete, process | balance, cache |
| Energy balance (`balance_usecase.go`, `balance_repository.go`, `calc/`) | `transformer_balance` | CalculateBalance, nightly recalculation | imports, alerts |
| Members (`account_usecase.go`, `auth_usecase.go`, `invite_usecase.go`) | `users`, `invites`, `tenants.seat_count`, tokens in circulation | invites, login, refresh, password, role and access changes, removal | tenant billing (seats, limit) |
| Signup (`signup_usecase.go`) | creates tenant and owner in one transaction | Signup | both of the above: their initial state |
| Scheduler, advisory lock (`jobs/`, `database.go`) | lock rows in PostgreSQL | trial expiration, dunning, webhook retry, alert retry, nightly balance, metrics | every job |
| Dunning (`billing_usecase.go`, `dunning_repository.go`) | `billing_dunning_events` | ProcessDunning | billing, scheduler |
| Connections, tenant isolation (`database.go`) | pool, session variables | acquire, release, reset | every statement |
| Payment client (`payment/asaas.go`) | none: customers, subscriptions and payments at the gateway | billing information, history, links, PIX | tenant billing |
| Access gate (`middleware/`, `jwt/`, `permissions.go`) | tokens in circulation | authenticate, refresh, permission, tenant status | members, billing |
| Rate limiter (`middleware/rate_limit.go`) | a bucket per client | allow, cleanup | every request |
| Network registry (`transformer_`, `consuming_unit_`, `network_`, `registry_import_usecase.go`) | substations, transformers, consuming units | create, batch, update, delete, import | cache, imports |
| Months and readings (`network_usecase.go`, `balance_handler.go`, `scheduler.go`) | readings typed in, `transformer_balance` | periods of requests, jobs and readings | balance, reports |
| Listings, dashboards, reports, exports (`dashboard_`, `report_`, `export_usecase.go`, handlers) | none | queries, filters, pages, figures | registry, balance, cache |
| Tariffs (`aneel/client.go`) | cache of reference tariffs | CurrentTariff | portal of ANEEL |
| Ingestion (`ingestion/`) | none | parse, detect schema | imports, registry |
| Risk (`calc/risk.go`, `risk_usecase.go`) | none: reads `transformer_balance` | GetRiskScore, GetAnomalies | balance |
| Metrics, training | own rows | upsert, queries | - |

What is hard in this code, and what each part has to get right:

* *Webhook inbox*: the gateway repeats an event until it is answered, several
  deliveries run at once, the process can stop between any two statements and the
  errors of the last statement are dropped.  An event must not be marked done without
  having been applied, must be applied once, and must not be lost.
* *Tenant billing*: a row read before a call to the gateway is written after it.  The
  columns of the row must stay consistent with each other, with the gateway, and with
  the users; a cancellation must last; nobody may be billed twice.
* *Summary cache*: a load that started before a write ends after it.  An answer must
  reflect the writes that had returned when it was asked for; identical loads must be
  shared; nobody may wait for a load that nobody does.
* *Alert delivery*: a message may be accepted and its answer, or its record, lost; the
  queue is lost in a crash; the retry job may take what a worker has in hand.
* *Imports and balance*: no unique index protects the readings or the balances, an
  import can be retried and undone, and the balance is computed from three reads.
* *Risk*: five factors computed from rows whose order another package decides must not
  contradict the loss they describe.
* *Network*: a code is unique, also against removed rows; the plan's limit and the
  links between rows are checked in statements of their own; updates write whole rows.
* *Months*: a month begins at another instant in another zone, and is named by
  requests, by the job and by readings; it must have one balance, of its readings.
* *Views*: the same figure is computed by several routes, in SQL, over cached rows, with
  filters of their own; they must agree and add up.
* *Jobs and connections*: a job holds a connection while it asks for others; a
  connection carries its last user's tenant; a daily job starts on every machine.
* *Payment client*: an answer that cannot be read becomes an object without fields; what
  a tenant is shown must still be its own.
* *Gate and limiter*: a token carries the role of the past, a bucket is forgotten; neither
  may give more than is due.
* *Members*: a tenant must keep an owner, the seats must count its users, an * *Members*: a tenant must keep an owner, the seats must follow its users, an invite
  must be used once, and who was put out must come back by a manager's update only.

`PROJECT.json` lists every component, and under `hazards` each place where this can go
wrong, with the properties that watch it.

## 2. Modules

| Component | Specification | Checked by (settings) | Proved in |
|---|---|---|---|
| Webhook inbox | `WebhookInbox`, implements `EventLedger` | `MCWebhookInbox` (inbox) | `WebhookInboxProofs` |
| Scheduler, lock, dunning | `Jobs` | `MCWebhookInbox` (dunning) | `WebhookInboxProofs` |
| Connections, tenant isolation | `ConnectionPool` | `MCWebhookInbox` (pool) | `WebhookInboxProofs` |
| Tenant billing | `TenantBilling` | `MCTenantBilling` (free, customer, calm, managed) | `TenantBillingProofs` |
| Payment client | `Gateway` | `MCTenantBilling` (client) | `TenantBillingProofs` |
| Summary cache | `SummaryCache` | `MCSummaryCache` (racing, shared, aging) | `SummaryCacheProofs` |
| Reference tariffs | `Tariffs` | `MCSummaryCache` (tariffs) | `SummaryCacheProofs` |
| Alert delivery | `AlertDelivery` | `MCWebhookInbox` (alerts: failing, prompt, slow) | `AlertDeliveryProofs` |
| Imports and balance | `Imports` | `MCImports` (serial, steady, overlapping) | `ImportsProofs` |
| Risk score and anomalies | `Risk` | `MCImports` (months) | `ImportsProofs` |
| Members | `Members` | `MCMembers` (serial, overlapping) | `MembersProofs` |
| Sessions and gate | `Access` | `MCMembers` (sessions) | `MembersProofs` |
| Rate limiter | `RateLimit` | `MCMembers` (limiter) | `RateLimitProofs`, `MembersProofs` |
| Network registry | `Registry` | `MCNetwork` (serial, racing, metered) | `RegistryProofs` |
| Dashboards, reports | `Reports` | `MCNetwork` (reports) | - |
| Listings | `Listing` (extends `Reports`) | `MCNetwork` (reports) | - |
| Months and readings | `Metering` | `MCNetwork` (metering, meteringUtc) | `RegistryProofs` |

Conventions.  A specification has one action per statement or call of the code, named
after the method it belongs to; the copy of a row that an operation carries between its
steps is part of its record in `task`.  An operation that its own first checks refuse
changes nothing and is not started.  Definitions commented *Mutant of ...* are wrong
versions of the definition that follows them: replacing one by the other must break the
property `PROJECT.json` names.  They are not part of any specification.

Much of this code is right only as long as its operations do not overlap, or nothing
fails between two of them; section 4 says what happens beyond.  So that such a property
can be stated in the specification, checked and proved, a specification has a *rigid*
variable: any value in its initial states, never changed, and a guard of the actions it
forbids.  (`Jobs` has one for another reason: `hasEmail`, below.)

| Specification | Rigid variable | Says |
|---|---|---|
| `WebhookInbox` | `dbSound` | no statement on the inbox fails |
| `TenantBilling` | `setting` | which operations are started (`ops`), what the gateway does by itself (`moves`), whether anything fails (`faults`), one operation after the other (`serial`) |
| `SummaryCache` | `short` | no request takes as long as a tick of the clock |
| `AlertDelivery` | `around` | `serial` producers, `reliable` marks, `prompt`: an alert is in nobody's hand when its five minutes have passed |
| `Imports` | `setting` | which calls may happen (`options`), `serial`, `steady` (nothing fails or is cut off), `prompt` (an import takes less than the ten minutes of Retry) |
| `Members` | `serial` | one operation after the other |
| `Registry` | `serial`, `typed` | one operation after the other; the codes that are ever typed |

An MC module EXTENDS its specification, and its initial states choose among the values
of the rigid variable, together with bounds that fit them; the choice has a name in a
variable of the MC module (`scene` or `setting`), which the table above lists.  Every
behaviour of a run is one of its specification.  The properties are those of the
specification, premise and all, so one run says both what holds under every interleaving
and what holds only when operations do not overlap, and it is these same formulas that
the proofs modules prove.  The constants of an MC module that say how large an instance
is get their values in its .cfg, with a named assumption beside their declaration, so
that what is proved of its settings is proved for any values.  `MCMetering` holds the two
settings of `Metering`, apart from `MCNetwork` which runs them, so that they can be proved
about without the rest of that module.

Components that do not touch each other's rows share a run: a setting steps one
specification and leaves the variables of the others as they are.  They meet through
what each takes from the other as its environment: the status that `TenantBilling`
computes is what `Access` reads, the role that `Members` changes is what its tokens
remember, the dunning row that `TenantBilling` writes is what `Jobs` reminds of, the
balances that `Imports` races for are what `Metering` dates and `Reports` shows.

### WebhookInbox

`row[e]` is the row of an event: stored, `processed_at` set, `processing_error` set.
`pc[h]` is the next statement of the goroutine `h` that serves a delivery: Exists,
CreatePending, processWebhookEvent, MarkProcessed or MarkFailed, and the answer, which
is always 200.  What an event does to its tenant is `applied[e]`, the number of times
its processing ended well.  `RetrySelect` and `RetryRun` are the retry job, `Age` moves
`created_at` through the window of its query, `Crash` loses handlers and job.  The
gateway (external) sends an event again until it sees an answer.  Two history variables
say of which events more may be wrong: `raced` are those that two handlers have held at
once, `cut` those that a crash took from a handler.

`EventLedger` is what the inbox promises, with no handlers, statements or failures in
it: the events on record, how often each took effect, and its outcome.  The refinement
mapping reads them off the rows (`Ledger`): stored rows are on record, `applied` is the
effect, and the outcome is `Outcome` of the two columns.  An action that writes nothing
but `pc` is a stutter; a second delivery of an event that is done may apply it again, or
find it failed, but cannot take back what is written.

### TenantBilling

`tenant` is the row, `task[w].row` the copy worker `w` will write back, `subs`,
`billed` and `events` what the gateway knows.  Actions follow ActivatePlan
(`CreateCustomer`, `CheckSubscription`, `CreateSubscription`, `Save`), ChangePlan
(`GetSubscription`, `Prorate`, `Charge`, `UpdateSubscription`, `Save`), CancelSubscription, the
events of payments (`PaymentOverdue` has its `CreateDunning` step before `Save`), the trial
job and the super admin.  The events of deleted and updated subscriptions are no actions:
ParseWebhookEvent hands on the subscription object itself (`asaas.go:351`), and their
handlers return because they find no field `subscription` in it (`billing_usecase.go:518`,
`:539`).  `Save` is TenantRepository.Update, which writes every column.
The trigger on `users` changes `seat_count` in the row itself.  The initial row is the
one Signup commits, whose seat count is 2 with one user: it inserts 1 and the trigger
adds the owner.  Events of payments come late and in any order.  Money is the plan's
price; a proration is the whole difference of two prices, because the gateway client
never fills the period and the program then takes the month that begins today.
`charged` adds up what `Charge` asks the gateway to bill for differences, above
`MinCharge` only; that call's failure is logged and the change goes on.

### SummaryCache

A value is the version of the network it was read from and when; `heap` is every
entry ever made and `entries` the map of the cache.  `Hit`, `Join`, `Miss`, `Load`,
`Publish`, `Forget`, `Wait` and `GiveUp` are the branches of `memo`; the load of a
dashboard asks the same cache for the summaries (`outer`).  Writers write and
invalidate when the method returns; `global` is InvalidateAll, called by jobs, whose
context has no tenant; `tx` is a method inside InTx, whose commit comes after its
invalidation.  `need` of a request is the version whose writers had returned when it
asked.

### AlertDelivery

`Check` and `Insert` are the two statements of CreateDelivery, `Enqueue` the send on the
channel (a full one makes the producer deliver by itself), `Send` the message, accepted
or not, its answer lost or not, `Mark` the statement MarkDelivery, whose error is only
logged.  `SelectFailed` and `RetryNext` are the retry job.  `alert[i].old` says that five
minutes have passed, after which the job takes a PENDING alert as well.

### Imports

One transformer, one month.  A reading is its key (meter, instant); `rows[i][r]` counts
the rows that import `i` owns for it.  `Analyze`, `Dedupe`, `Insert`, `Finish` are the
statements of `process`; `Clear` is Retry's transaction, `Delete` a transaction too.
`ReadInjected`, `CountConsumption`, `TotalConsumption`, `UpdateBalance` and
`CreateBalance` are CalculateBalance, run by an import, by hand or by the nightly job.
Every reading counts 1 kWh, so the energy of a period is the number of its rows
(`RowsOf`).  Parsing is a choice of the valid rows.

### Risk

`history` is the balances of one transformer, oldest first; `CloseMonth` and
`Recalculated` are what UpsertForPeriod does to them.  Everything else is a function of
the state, computed when somebody asks: `Fetched` is the result of the query, newest
first, and the factors, points, level, trend and anomalies follow `calc/risk.go`.  Code
that computes in floating point is modelled exactly, with fractions over common
denominators and energies for which the loss percentage is whole; the one rounding that
matters, the score being rounded for display after the level was chosen, is left out
with the display.  `Status` is the classification of PRODIST.  The module has variables
of its own and shares the runs of `MCImports`.

### Registry

`trafo`, `sub` and `unit` are the tables, a row being absent, live or removed (soft
deletion keeps the row, and the unique index on tenant and code sees it).  `task[w]`
carries what a request read.  Create, batch, update, delete, rename and import are
split into their statements, which interleave; an import ends in one transaction
(`UpsertByCode`) preceded by the reads it does not lock: the quota, the codes known, the
substations named; `WithItems`, `WithLines` and `WithSubstations` are the tables after
a batch and after an import.  `Fold` is upper case, in which imports compare codes while the index
and single creations do not.  `Written` is TransformerRepository.Update: every column
but `deleted_at`.  A request may name any substation there ever was (`Known`): neither
CreateTransformer (`transformer_usecase.go:130`) nor UpdateTransformer (`:258`) looks it
up, and the foreign key takes a row that was removed.

### Metering

An instant counts half days, a month is two days, and Brasilia is half a day behind
UTC: so every boundary of a day and a month, in both zones, is an instant.  `Calculate`
is the request for one transformer, with the readings or with energies given by hand,
for a month, for days or without a period; `RecalculateAll` is the nightly job;
`AddTransformerReading` and `AddUCReading` are the readings typed in, with or without
recalculation, with or without an offset.  `TopConsumers`, `GetConsumptionHistory`,
`TransformerSeries`, `ExportReadings`, `PeriodMonth` and `CompareMonth` are the views.
`behind` remembers the months whose balance need not follow the readings.

### Reports and Listing

The state is a small network and its balances by month; `ReportsNext` closes a month,
calculates one again or edits the network.  Every dashboard, report and export is an
operator of that state, named after its method, with the filters the code has there;
`Listing` adds the parameters of a request, the query that answers when a group is
named, the cached rows filtered in memory that answer otherwise, and the pages.
Energies are chosen so that percentages are whole.  A ranking is cut where the code cuts
it: the map at its limit, by status, late readings and use of the limit (`Before`); the
transformers that need attention (`MaxAttention`, 20 in the code) and the recoverable
amounts of the managerial dashboard (`MaxRecoverable`, 10).  Late readings and recurring
alerts are reasons for attention: a transformer is taken to be read in the months that it
has balances of, and `RecurringAlerts` says that it had three alerts in 30 days, or no
longer has.  The map's bounding box, its centre and its load factors are left out.

### Access and RateLimit

`Access` has one user and one tenant: `issued` is every token the user was given, of any
number of sessions.  An access token carries the role of its issue, a refresh token none,
and nothing else tells them apart: one key signs both and `ValidateToken` and
`ValidateRefreshToken` check the same (`jwt.go:62`, `:98`), so either is accepted in the
other's place.  The refresh reads the user again, the gate reads the tenant at every
request, in the order of router.go.  `held[r]` is the last instant at which the user had role `r`.
`RateLimit` is one bucket in integers: tokens in sixtieths, so that a second adds the
rate per minute.  `excess` is the most that any stretch of time granted beyond the rate.

### Jobs and ConnectionPool

`Jobs` is the dunning job on two machines: each one's timer goes off at the minute
(`due`), it tries the lock, selects, sends and marks row by row, and unlocks; messages
and statements fail, a machine restarts, and the session that holds the lock may break
while the run goes on.  Its query selects `tenants.email` (`dunning_repository.go:47`), a
column that no migration creates; `hasEmail` says whether somebody has added it, and
without it `GetPendingDunning` fails and the run ends (`billing_usecase.go:592`).
`ConnectionPool` is the hooks of `NewDatabase`: a connection is given the tenant when it
is acquired and reset when it is released, either may fail, which destroys it; a job
holds one (for its lock) and asks for a second.  The queue in which requests wait is
that of pgxpool (external): first come, first served.

### Gateway and Tariffs

In `Gateway` a request reads the tenant's row and then makes its calls, each answered
with the object, as `{"data": ...}`, with an error, or with a body that is no object,
which `ParseCustomer` and its siblings take for one without fields (`Blank`).
`Tariffs` is CurrentTariff: the entry, the query that two misses both make, and the line
in force chosen from what it returned (`PickInForce`).

### Members

E-mails stand for users, since `users.email` is unique and a removed user keeps the row.
`claims[e]` is the set of managing roles in tokens that `e` holds: a token is never
revoked.  Login and ChangePassword carry the row they read and write it back whole.
`WriteUser` is a write together with the trigger that moves `seats`.  OWNER, ADMIN and
VIEWER stand for the five roles: one above, one that manages below it, one that manages
nobody.

## 3. Runs

Six passing runs, each of a group of components, and six runs for disagreements met
between the code and what its documentation says.

### Passing runs

**webhook_inbox** (3 handlers, 1 event, 2 crashes, `applied` saturates at 2; one event,
because rows of different events never meet).  *Any disturbance*: an event
marked done without error was applied (`DoneWasApplied`), and the rows are a ledger of
events (`KeepsLedger`): none is lost, no effect exists without its row, no outcome is
written that did not happen or is forgotten.  *While no statement on the inbox fails*: an event is applied at most
once unless two handlers held it at once or a crash took it from one (`ProcessedOnce`); every event
ends up on record (`EveryEventIsRecorded`).  Three handlers let one delivery be overtaken
by two others; two applications are enough to tell once from more.
*dunning* (2 machines, 2 rows about 3 payments of 2 tenants, 1 fault, with and without
the column of its query) and *pool* (2
connections, a request, a super admin's and a job, 2 tenants, 2 faults): the lock admits
one run at a time and a reminder goes out once unless its run was disturbed, and no
connection is ever in a scope that its user did not ask for (`JobsHold`); whoever waits
for a connection gets one (in `EveryEventIsRecorded`).  That a tenant who stays overdue is
reminded is not among what holds: see *never_reminded*.  Two machines suffice to overlap; two connections are the fewest
with which a job that needs two can proceed.
*alerts* (2 producers, 1 delivery worker, queue of 1, 2 attempts, 1 crash), in three
settings: *failing* (producers race, MarkDelivery fails; no more than two messages are
sent), *prompt* (an alert is first handled within five minutes) and *slow* (it may not be).
A SENT row means that a message was accepted (`SentIsTrue`), one producer at a time alerts
once (`SerialAlerts`), a prompt alert keeps to the attempt limit and is not sent again
(`PromptSending`), and while marks do not fail every recorded alert ends sent or out of
attempts (`RecordedAlertsSettle`), also when a crash empties the queue.  A queue of one is
full with the second alert.

**tenant_billing** (2 workers, 2 subscriptions, 3 plans).  *free* (everything at once,
failures, 3 operations): the limit is the one of the plan in the row and in every copy
(`SeatsMatchPlan`), subscriptions are real (`SubscriptionIsReal`).  *customer* (no
administrator, 3 operations): a tenant is ACTIVE or PENDING_PAYMENT only with a
subscription on a paid plan, and an overdue tenant was dunned first
(`CustomersAreBilled`).  *calm* (the customer and a gateway that moves by itself) and
*managed* (everybody, and a gateway that does not), one operation after the other without
failures, up to the `MaxOps` of the cfg: credits add up; the plan is the one billed when
no administrator changes it; there is at most one active subscription when the gateway
makes none active by itself (`SerialBilling`).  *client* (2 requests served,
3 asked, 2 tenants, 2 customers, 1 payment, 1 call answered badly): what is shown to a
tenant belongs to it, and a link that is answered exists (`OwnBilling`); two tenants are
needed to show one the other's, and one bad answer to lose or blank each object once.
Two workers suffice for a stale
copy: one reads, the other completes, the first writes; three operations let a third
start from what they left.

**summary_cache** (2 requests, 1 writer, up to 2 tenants, TTL 2, 3 questions, 2 writes).
*racing* (failing loads, writes inside and outside transactions), *shared* (two tenants,
global invalidations), *aging* (the clock): `AnswersAreFresh`, and that loads are shared
and nobody waits for one that nobody does (`WaitingIsRight`), in all; `AgingAnswers` where
time passes.  The age bound is TTL - 1
for summaries and twice that for dashboards, which are computed from cached summaries.
TTL 2 makes the boundary tick and one tick after a load distinct.  *tariffs* (2 callers,
2 resolutions, TTL 1, 3 ticks): a tariff told was in force on some day since its entry's
life began (`TariffsAreRecent`); two callers fill an entry in either order, and the second
resolution replaces the first while it is cached.

**imports** (2 agents, up to 3 imports, 2 readings of the transformer and 1 of a
consuming unit, 1 abort, 2 retries).  *serial* (one operation after the other, any of
which may fail or be cut off at any step), *steady* (nothing fails, nothing is undone),
*overlapping*: no reading twice, nothing left of an undone import, one balance per
period and never one without consumption (`SerialImports`); a true history, also when uploads and removals overlap (`HistoryHolds`); counted duplicates really stored, and a balance that is current whenever
nothing runs (`SteadyImports`).  Two readings make partly duplicate files; the third import can
overlap with each of two.  *months* (4 months in view, 7 kinds of month, 16
transformers): CRITICAL only when the loss reaches the limit, LOW only below one and a
half times the limit, and anomalies that agree with the month scored
(`MonthsAreExplained`).  The kinds are losses below zero, zero, exactly at the limit,
over it and far over it, and a month without energy; slopes need three months, and a
fourth lets a recalculation and the sliding window matter.

**members** (a founder and 2 more e-mails, 2 invites, 2 workers, 3 seats).  *overlapping*
(4 operations) and *serial* (6 operations, each of which may be cut off).  In both
rows, tasks and seats are well typed (`TypeOK`) and an
e-mail is admitted by one invite only (`AdmittedOnce`).  One operation after the other
an owner remains (`SerialOwner`), owners answer to owners only, the outcome of an invite is
final, the seat count moves by those who come in or are put out, and who was put out comes
back through an update of his row by a manager, never by a login, a new password or an
invite (`SerialAccess`).  That manager may be himself: see section 4.  Six operations are invite, accept, log
in and three more, enough for two owners to act on each other.

*sessions* (access tokens of 2 ticks, refresh of 3, 5 ticks, 2 changes): a permission is
used at most one access token's life after it was last held, and a route that asks for a
session only at most one refresh token's life after the user was active, since a refresh
token passes for an access token; a blocked tenant reaches its bills,
profile and settings and nothing else, whether or not the trial job has run, and roles nest (`GateHolds`).
*limiter* (5 a minute, 3 at once, as for the login; 50 seconds): no stretch of time lets
through more than burst and rate, and Retry-After is long enough (`LimitHolds`); a bucket
is dropped after 36 seconds, as soon as it can only be full, and 50 seconds see it
filled, dropped and made anew.

**network** (2 workers, 3 transformers, 2 substations, 1 unit, 3 codes that are typed: in
*serial* three that differ, elsewhere two of them in case only).  *serial* (4 operations, a plan of 2 transformers), *racing* (3 operations,
no limit), *metered* (4 operations with units).  Always: codes are unique (`TablesAreRight`) and a
removed row comes back through an import of its code only (`RemovedStays`).  One operation
after the other: the plan's limit holds if codes are typed in one case (`SerialNetwork`),
and a transformer is linked to a removed substation by a request that names it and by
nothing else (`LinksAreNamed`).  *reports* (2 transformers, 1 substation, 3 months of two or
four energies, 1 edit, years and quarters of 2 months, rankings cut to 1): dashboards count the same
transformers, cut their lists at the harmless end and call what is CRITICAL overloaded
(`DashboardsAgree`); parts add up and the managerial figures, histories, ANEEL, PDF and
comparison are the same (`ReportsAddUp`); the cached listing answers as the query does and
its pages are all of it, once (`ListingsAgree`).  *metering* and *meteringUtc* (2
transformers, 1 unit, 3 readings in 5 half days, a second month begun; units move on the
server in Brasilia, offsets are sent to the one in UTC, both are asked for months by name
and by default): on a server in Brasilia a month has one balance; on one in UTC, which is
what the image and fly.toml make, at most one of the month of Brasilia and one that is not;
on both the balance of a month of Brasilia is of its readings and no other, and every view
shows it under the same month (`MonthsAreMetered`), and what is consumed in a month adds up
over units, transformers, histories and export (`ReportsAddUp`).  That recalculations never
duplicate history is not among what holds: see *metering_utc*.  Two
transformers are enough for lists, sums and moves; three rows let two workers fill a plan
of two.

Deadlock is not checked in the runs of tenant billing, imports, members, the network and the cache:
their bounds on operations are meant to be used up, and a system where nobody asks for
anything rests.

### Violation runs: where the code and its documentation disagree

* **webhook_retry_blind** (`FailedAwaitsRetry`): MarkFailed sets `processed_at`, which
  the retry query wants NULL, so the retry job never finds anything.
* **never_reminded** (`OverdueIsReminded`): the query of the dunning job names a column of
  `tenants` that no migration creates; the job fails every day, and a tenant stays overdue
  without a reminder.  The counterexample is fair: the job runs at every minute of its own.
* **metering_utc** (`RecalculationsReplace`): on a server in UTC the default month is not
  the one of the job, and the same readings get a second balance under another key.
* **imports_double_retry** (`NoDuplicateReadings`): two Retry calls of one import, the
  second begun while the first runs, store its readings twice.
* **billing_charge** (`CalmCharges`): the sign of the proration is inverted, so a change
  to a cheaper plan is charged the difference and a change to a dearer one is not.
* **risk_trend** (`MonthsTrend`): the balances arrive newest first and the slope takes
  their positions for time, so rising losses are called IMPROVING and lower the score.

The lines they contradict are quoted in `PROJECT.json`.

### Fairness

Assumed only where a liveness property needs it.  `WebhookInbox!Fairness`: a started
request or job run proceeds (goroutines are scheduled; every statement returns or
errors), the scheduler starts the retry job again and again (`ticker` in
jobs/scheduler.go), and the gateway delivers an unanswered event again.  The last is
strong fairness, because a handler that is free is not continuously free; it is the
gateway's documented behaviour that the code relies on and no property of the code.
`AlertDelivery!AlertFairness`: workers take jobs from the channel, deliveries proceed
(sending and marking have timeouts), the retry job runs again and again and time passes.
A producer is not obliged to report a balance, nor is a crash obliged to happen.
In `MCWebhookInbox` each setting has its own fairness, that of its specification.  *dunning*: the minute of the job
comes round and a run that has begun proceeds or stops.  *pool*: whoever has a connection
gives it back (a job once it has had its second), a free connection is handed to the first
in the queue, and a reset returns.  Weak fairness is enough for both: the queue is first
come first served, and the timer of a machine stays due until it is handled.

## 4. What was found beyond the runs

TLC or the source shows the following; each is why a property is required in some
settings only.

* Inbox: an error of Exists or CreatePending is answered 200 with no row, and the
  gateway does not send the event again; overlapping deliveries process an event twice
  (`billing_usecase.go:422` calls it idempotent).
* Billing: an overdue or paid event that arrives after the cancellation takes a CANCELLED
  tenant back to PENDING_PAYMENT or ACTIVE, since the payment handlers set the status
  whatever it is (`billing_usecase.go:506`) and the row keeps its subscription, although
  `migrations/007_billing_fase_a.sql:33` calls the cancellation irreversible; a subscription
  deleted at the gateway leaves its tenant ACTIVE.  Writing back a stale row loses `seat_count` changes, a cancellation or its
  date, suspends a tenant who has just paid, and two activations at once create two
  subscriptions.  Pending credits are never
  applied (GetPendingCredits has no caller), and a difference of exactly R$ 5,00, the
  smallest charge the gateway accepts, is not charged (`billing_usecase.go:306`).
* Risk: the score of a transformer that consumes more than it is fed is negative,
  although its field says 0-100; a transformer over its limit in every month can be LOW
  while its losses rise (20, 22.5 and 25 % for a limit of 20 %, all of it technical).
* Cache: a write inside InTx invalidates before it commits, so only the TTL bounds how
  long the old value is served; dashboards may be almost twice the TTL old; a panic in a
  load leaves its entry never ready.
* Alerts: two producers of one balance record it twice; alerts that wait in the queue or
  are being sent for more than five minutes are sent again and exceed the attempts.
* Imports: removing an import that is being processed leaves its readings; removing the
  owner of readings that another import skipped as duplicates removes them from the
  balance although the other is COMPLETED; overlapping calculations insert two balances
  of a period, count a month without consumption as a loss, or leave an old result.
* Members: `seat_count` is one more than the active users of a tenant from its signup on
  (`signup_usecase.go` writes 1 and the trigger counts the owner), although
  `migrations/007_billing_fase_a.sql:27` calls it the current count; a plan of five seats
  is full with four users.  A manager who was deactivated may set his own row active again
  while he has a token: UpdateUser refuses only to deactivate oneself
  (`account_usecase.go:169`) and looks at nobody's `active`.  A login or password change that overlaps a deactivation or removal writes the
  row back active, and moves the seats; two owners who demote or deactivate each other at
  once leave none, since ensureAnotherOwner locks nothing (`account_usecase.go:138` says a
  tenant always keeps one); an invite accepted and cancelled at once ends with either
  outcome; a removed person's e-mail can never be invited again with success, because the
  unique index sees the removed row; seats are compared when an invite is made only, so
  invites made while seats were free, or a re-activation, exceed the plan
  (`docs/endpoints.md:66`).
* Gate: a refresh token, good for seven days, is accepted as an access token, so profile,
  onboarding and training answer a deactivated user for that long; it names no role, so
  every route that asks for a permission refuses it.  The gate falls back on `trial_until` when `trial_expires_at` is empty, while the
  expiration job reads the latter only, so such a trial is refused and never suspended.
  Retry-After is a second or so short for rates below 60 that do not divide it; all
  that are configured do, or are not below.
* Months: `balance_handler.go:38` takes the previous month of the server's zone, and the
  containers run in UTC, while the job, the imports and every named month use Brasilia.
  The same month is then stored under two keys and counted twice by what sums a period,
  although `balance_repository.go:556` promises that recalculations do not duplicate
  history (*metering_utc*).  A reading typed with an RFC 3339 time in UTC recalculates the
  month of UTC, not that of Brasilia.  A `period_end` written as a month means its first
  day.  The nightly job replaces a balance given by hand without a word.  TopConsumers
  counts a unit that moved, with all it ever consumed, at its new transformer, and stops
  at 1000 units; the buckets of TransformerSeries are months of UTC.  UCReadingRepository's
  Create does not invalidate the summaries.
* Network: a request may link a transformer to a removed substation, which the lists then
  show under its code; the quota is counted before the insertion, so two creations at once exceed it,
  and so do codes in an import that differ in case only; two updates at once lose columns;
  deleting a substation may commit between an import's lookup and its commit, which then
  links to it; deleting a transformer leaves its units attached; BatchUpdate stops at the
  first error with the earlier items written; a dry run counts codes of removed rows as
  new, which the import then reports as updated.
* Listings: `GET /transformers` with `page` and no `limit` answers the first page
  whatever the page; pages by offset skip or repeat a row when rows come and go.
* Dashboards: "last_12_months" of the managerial dashboard is this month and eleven
  before, while the aggregates and ANEEL reach twelve back; a transformer at (0, 0) is
  located for the operational dashboard and absent from the map; the comment of
  AvgLossLimit says active network, its query leaves out removed rows only; monthly
  aggregates include transformers removed since, reports do not; last year's totals of the
  comparison are of the transformers shown this year.
* Payment client: `doRequest` (`asaas.go:412`) unwraps `data`, while ListPayments expects
  the wrapping its comment describes, so the payment history of a tenant with a customer
  always fails.  MapAsaasError has no caller: a customer removed at the gateway makes
  ActivatePlan and GetBillingInfo fail for ever.  An unreadable answer to CreateCustomer
  stores an empty id, and the next activation creates another customer; one to
  GetSubscription lets an activation create a second subscription.  A payment is "not
  found" also when the gateway is down.
* Tariffs: the key of the cache ignores case and the portal does not, so a name written
  otherwise is found only while it is cached; that there is no tariff is not cached; the
  day is the server's.
* Jobs: a run of the dunning job stops at the first failed mark, and stages 2 and 3 are
  never recorded, hence never sent; marking a reminder marks every row of the stage.  WebhookRetryJob of
  `jobs/webhook_retry_job.go` is not among the standard jobs.
* Connections: the entries of connections that broke while in use stay in `scoped`.  Jobs
  hold a connection and ask for another, so as many jobs as connections would wait for
  ever: there are six jobs and 25 connections.

## 5. Theorems

Each theorem is of the specification `Spec` of its component or, where several share a
run, of the `MCSpec` of the module that runs them (`MeteringSpec` for `Metering`, which is
what `MCNetwork` steps in its two settings).  Their constants are any that satisfy the
named assumptions in those modules: the sentinels (`NoEvent`, `None`,
`NoImport`...) are no members of the sets they stand beside, bounds are natural numbers,
a plan has a limit and a price, there is a tenant; in addition `Registry` and `Imports`
assume that there are finitely many rows, because they count them.  The assumptions of the
MC modules say as little: `JobAssumption`, `PoolAssumption`, `ClientAssumption`,
`TariffAssumption`, `GateAssumption`, `LimiterAssumption`, `RiskAssumption` (a transformer
has a positive limit, which validation.go requires, and the query finds at most seven
months) and `MeteringAssumption`.  TLC evaluates the
assumptions in the runs.  Nothing else is assumed: not how many workers, tenants, events,
entries, operations or failures there are.

The pattern is the same throughout.  What TLC checks is seldom inductive, for it speaks
of stored rows and says nothing of what an operation holds in its hand.  The
strengthening says, step by step of each operation, what its copy is worth, and it is in
finding the words that survive every other operation's steps that one sees why the code
is right, or under which premise.

**`WebhookInboxProofs`**: `TypeCorrect`, `DoneMeansApplied`, `EffectIsRecorded`,
`AppliedAtMostOnce`, `InboxIsALedger`, `JobsAreSafe`.  A row marked done was applied because the handler about to mark it
has applied it (`HandlerKnows`); the row is stored from `process` on.  A crash only
empties `pc`, so it cannot break either.  That an event is applied once needs more: while
it is unmarked and applied, somebody is just about to mark it (`AppliedOnce`), whom a
second handler would have to meet; and the retry job plays no part since its batch is
always empty, which the proof needs and which is the finding of *webhook_retry_blind*.
The refinement (`InboxIsALedger`) rests on both invariants: CreatePending is `Record`,
processWebhookEvent `Apply` of an event on record, MarkProcessed `Settle` of one that took
effect, or nothing where an outcome is already written, MarkFailed `Fail`, and the run of
the retry job changes no row since it has selected none.

The jobs and the pool (`JobsAreSafe`) are proved by one invariant each.  Whoever holds the
lock is running, and while nothing has failed nobody else is (`LockInv`); the rows that a
run without the lock still has to send are *shaky* (`TodoInv`); any other row was reminded
of at most once, and if it was, is marked or is the one about to be marked (`MailInv`).  A
connection in use is in the scope it was asked for, one that is idle or closed in none,
and one that is in a scope is on the list that makes its release reset it (`Clean`), so
whatever statement fails, the next user does not inherit it.

**`TenantBillingProofs`**: `TypeCorrect`, `LimitFollowsPlan`, `SubscriptionExists`,
`CustomersPay`, `SerialBillingIsRight`, `TenantsSeeTheirOwn`.  For the first three a good row is a property of
one row: if the stored row and every copy are good (`CopyOK`) and each operation turns a
good row into a good one (the lemmas), then writing a stale copy back restores an older
good row, and only relations *between* rows or with the outside can be lost.  For the
subscription this needs one more fact: the gateway never forgets a subscription
(`Keeps`).  `CustomersPay` is again of this kind: reminders are never taken back, so a
copy that was reminded of stays so, and only the copy at the step that records the
reminder lacks one (`BilledInv`).  `SerialBillingIsRight` is not: it says where in an
operation the row, the gateway and the credits part and by how much (`Right`: the credits
are ahead by the amount just recorded, the row behind until it is saved).  Events of
payments, however late, change the status alone, which none of the three looks at.  `TenantsSeeTheirOwn` (`ClientInv`): an id in a row, in a request or
in an answer is one that the gateway made for that tenant, or blank (`OfTenant`); a body
that cannot be read blanks an id and never changes one, and a payment is shown only after
its customer was compared with one that is not blank.

**`SummaryCacheProofs`**: `CacheTypeCorrect`, `WaitersAreServed`, `ReadYourWrites`,
`AnswersAgeLittle`, `TariffsWereInForce`.  The structure comes first (`StructInv`): an entry is open as long as
one request, and only one, is to fill it, and an open entry of the current generation is
in the map (`Kept`).  The last carries the case a reviewer would stop at, a global
invalidation, which moves the generation only of tenants with an entry.  Freshness goes
over promises: every value on its way into an entry meets (`Meets`) what the entry has
promised, to the requests that wait and, while its generation lasts, to those that may
still join; a dashboard's entry has promised it before its summaries were asked for
(`Serves`).  Ages are counted from the end of a load, and add up once, because summaries
are not computed from anything cached (`AgeInv`).  The cache of tariffs shares nothing
with this one: an entry names the day its life began on, and was in force by what was
published then (`EntryInv`), because a request receives what was published when it asked,
at most a tick earlier (`CallInv`); later resolutions start later and cannot change it.

**`AlertDeliveryProofs`** (of `AlertSpec`): `AlertTypeCorrect`, `HistoryIsTrue`,
`SerialCalculationsAlertOnce`, `PromptAlertsAreSentOnce`.  An outcome in hand is as true
as a recorded one (`HistoryInv`); what a calculation is about to insert is in no row
(`SerialInv`).  The last is about ownership: queue, workers, producers and retry job never
hold the same alert (`PromptInv`), and what keeps the retry job's apart from everybody
else's is the five minutes alone, not the status it reads.

**`MembersProofs`**: `MembersTypeCorrect`, `InviteesAreAdmittedOnce`,
`SerialOwnerStays`, `SerialAccessIsRight`, `GateIsSafe`, `LimiterIsFair`.  For one e-mail there is one invite that is
accepted or about to be (`Passed`), which the unique index on e-mails guarantees under any
interleaving.  The other two hold one operation after the other, where what an operation
has read still is so (`TaskOK`): that another owner exists, that the person is no higher
than the one who acts, that the row to be written back is the stored one but for the
edit.  Seats are a cardinality, and the lemmas say how one write moves it.  Rights lapse
because the role in a token was held when the token was issued, or later, and a token that
outlives the access tokens names none (`WithinLife`, in `GateInv`): a refresh reads the user again, with
whichever token it is asked for.  The rest of `GateIsSafe` is about one state, route by route
and role by role.  `LimiterIsFair` is `RateLimitProofs` for the limiter of the run.

**`RegistryProofs`**: `TablesStayRight`, `RemovedRowsStay`, `SerialNetworkIsRight`,
`LinksAreNamedSerially`, `MonthsStayMetered`.  Codes
stay unique under any interleaving since the statement that writes a code finds it
unused, and an import restores only what has a row for ever (`RestoredOK`); an import of
many lines, several of which may be new, is the longest case.  The plan holds and links are
made by name one operation after the other (`TaskOK`), and the quota of an import counts what will be
inserted only if no two typed codes differ in case alone (`OneCase`).  Months are metered
because every way to name a period that is not refused, and every job and reading, arrives
at a whole month of Brasilia, or at days inside one (`MeterInv`): so transformer and first
instant are a key, an update finds what it replaces, and a balance of a month that is not
`behind` equals what its readings give, whichever action wrote them.  On a server in UTC
the default month is of another calendar: its periods are never whole months of Brasilia,
and each calendar keeps one balance of its own.

**`ImportsProofs`**: `ImportsTypeCorrect`, `SerialImportsAreRight`, `HistoriesAreTrue`,
`SteadyImportsAreRight`, `MonthsAreAlwaysExplained`.  Four invariants, each with the premise of its property only.
The history needs no more than that an import has one agent (`OneAgentEach`), and what
that agent kept is what the import owns (`Kept`), so it holds for overlapping uploads and
removals.  The others need that a reading has one owner (`OneOwner`) and that a
calculation carries the energy that is stored (`Read`).  The balance is current because
an operation that has not inserted yet either leaves it so or has a reading to insert,
after which it calculates again (`SteadyInv`): the shortcut that skips the recalculation
of an import without new readings is thereby justified.  For the risk score no invariant is
needed but the types; the work is in the lemmas that bound each factor, so that the factor
of the loss, with its weight of 40, decides the level at both ends.  The slope of the trend
is a quotient of sums over the months of the query; only that its factor is between 0 and
1 is used, which needs the divisor to be positive for three to seven months.

**`RateLimitProofs`**: `BurstIsBounded` and `WaitingIsEnough`, for any rate, burst and idle
time with `Limits`: a bucket fills before it is dropped.  `WithinBurst` does not say what
the bucket would still grant, so the induction goes over `Credit`: what a stretch granted
beyond the rate and what is left in the bucket are together at most the burst.  A grant
moves a token from one to the other, a second adds the same to one and pays the other,
and `cleanup` drops only a bucket that is full, when nothing is owed any more; here the
assumption is used.  The lemmas say that a longer wait fills more and that filling stays
within the burst.  The five limiters the program makes satisfy `Limits`; it is an
assumption of these theorems and not of the module, and `LimiterAssumption` of the members
run evaluates it for the values checked.

Only model-checked:

* liveness (`EveryEventIsRecorded`, `RecordedAlertsSettle`), which is out of TLAPS's
  reach here: it needs fairness and ENABLED;
* what is shown of the network (`DashboardsAgree`, `ReportsAddUp`, `ListingsAgree`):
  sums over sets, sorted sequences and pages of them, whose general facts (a sum over a
  partition, a sorted order of every finite set) are inductions over data, with an
  operator for what is summed or compared; this includes what is consumed in a month
  (`Metering!ConsumptionAgrees`), though not the month itself;
* the six violations, which are counterexamples.

## 6. Not modelled

* Parsing of files and the reading of numbers, dates and texts; layout, charts and
  formatting of reports; wording of messages and choice of recipients: no state.
* Billing metrics and training: one row, upserted.  The financial table: no route.
* HTTP routing, configuration and start-up: wiring.  Token formats, signatures and
  password hashes.
* The technical loss of PRODIST from nameplate data (floating point over powers of the
  load), and the proration of part of a period, which the program never computes because
  the gateway client does not fill the period.
* Policies of row level security in SQL; the client of a gateway that is not configured.
* A panic in a load of the cache.
* Groups of transformers, the audit log, onboarding and settings.

## 7. Plan

Done: the components of section 2 with their runs, the eight groups of proofs, and the
inbox as an implementation of `EventLedger`.  Left:

1. Abstract specifications of the other stores that are shared: a cache that answers with
   some version not older than asked (what `ReadYourWrites` says of each answer), a queue
   that sends each alert at least once or gives up, each shown to be implemented.
2. The pointwise parts of the views (which transformers, which months, which status) as
   theorems about `Reports`, apart from the sums and sorts around them.
3. Composition of `WebhookInbox` with `TenantBilling`: an event applied is the change of
   the tenant; delivery of events out of order.
4. `Rules`: technical loss and proration as functions over their boundaries, with lemmas
   for all inputs (signs, bounds, monotonicity).
