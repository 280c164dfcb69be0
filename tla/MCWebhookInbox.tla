--------------------------- MODULE MCWebhookInbox ---------------------------
(***************************************************************************)
(* What is stored first and finished by a job, for TLC: WebhookInbox, over *)
(* a database that fails and over one that does not, and AlertDelivery.    *)
(* Other settings run what all jobs rest on: the lock that keeps a daily   *)
(* job (the dunning job) to one machine, and the pool of connections.      *)
(***************************************************************************)
EXTENDS WebhookInbox, AlertDelivery, TLC

CONSTANTS h1, h2, h3, e1

ThreeHandlers == {h1, h2, h3}
OneEvent == {e1}

VARIABLES
    setting  \* what this behaviour runs (fixed by the start)

-----------------------------------------------------------------------------
(* The dunning job: two machines, two rows; three payments, two of them of *)
(* one tenant.                                                             *)
CONSTANTS
    Machines, NoMachine, Tenants, Payments,
    tenantOf,      \* tenantOf[p]: who owes payment p
    MaxRows, MaxJobFaults

ASSUME JobAssumption ==
    /\ NoMachine \notin Machines
    /\ Tenants \subseteq Nat /\ 0 \notin Payments
    /\ tenantOf \in [Payments -> Tenants]
    /\ MaxRows \in Nat /\ MaxJobFaults \in Nat

VARIABLES minute, due, at, todo, holder, events, overdue, mails, hasEmail, shaky, faults

jobvars == <<minute, due, at, todo, holder, events, overdue, mails, hasEmail, shaky, faults>>
Dunning == INSTANCE Jobs WITH pc <- at, MaxFaults <- MaxJobFaults

OwnerOf == <<1, 1, 2>>

(* The pool: two connections, a request, a super admin's one, and a job.   *)
CONSTANTS
    Conns, Requests, LockedJobs, NoTenant, NoOne,
    identity,      \* identity[w]: in whose name w may ask
    MaxPoolFaults

Workers == Requests \cup LockedJobs

ASSUME PoolAssumption ==
    /\ NoTenant \notin Tenants /\ NoOne \notin Workers
    /\ identity \in [Workers -> SUBSET (Tenants \cup {NoTenant})]
    /\ MaxPoolFaults \in Nat

VARIABLES conn, scoped, doing, queue, broken

poolvars == <<conn, scoped, doing, queue, broken>>
Pool == INSTANCE ConnectionPool WITH
    pc <- doing, faults <- broken, Jobs <- LockedJobs, MaxFaults <- MaxPoolFaults

Identities == [request |-> {1}, admin |-> {0, 2}, job |-> {0, 1, 2}]

-----------------------------------------------------------------------------
(* Alerts in three settings of their own: two calculations report the same *)
(* balance and MarkDelivery may fail; one calculation at a time, and every *)
(* alert is handled within the 5 minutes that protect it from the retry    *)
(* job; the same with alerts handled later.                                *)
CONSTANTS p1, p2, d1, k1, k2, i1, i2

TwoProducers == {p1, p2}
OneDelivery == {d1}
TwoKeys == {k1, k2}
TwoIds == {i1, i2}

Failing == [serial |-> FALSE, reliable |-> FALSE, prompt |-> FALSE]
Prompt == [serial |-> TRUE, reliable |-> TRUE, prompt |-> TRUE]
Slow == [serial |-> TRUE, reliable |-> TRUE, prompt |-> FALSE]

(* A second balance matters to the alerts that are handled in time; where  *)
(* marks fail a message may go out twice, and not more often here.         *)
FewAlerts ==
    /\ around # Prompt => \A p \in Producers : task'[p].key # k2
    /\ around = Failing => \A i \in Ids : sent'[i] <= 2

inboxvars == <<vars, watched>>
mcvars == <<inboxvars, setting, jobvars, poolvars, alertvars>>
-----------------------------------------------------------------------------

MCInit ==
    /\ Init
    /\ Dunning!Init /\ Pool!Init
    /\ AlertInit
    /\ setting \in {"inbox", "dunning", "pool", "alerts"}
    /\ setting # "inbox" => ~dbSound
    /\ setting # "dunning" => ~hasEmail
    /\ around \in {Failing, Prompt, Slow}
    /\ setting # "alerts" => around = Failing

MCNext ==
    /\ UNCHANGED setting
    /\ \/ /\ setting = "inbox" /\ UNCHANGED <<jobvars, poolvars, alertvars>>
          /\ Next
       \/ /\ setting = "dunning" /\ UNCHANGED <<inboxvars, poolvars, alertvars>>
          /\ Dunning!Next
       \/ /\ setting = "pool" /\ UNCHANGED <<inboxvars, jobvars, alertvars>>
          /\ Pool!Next
       \/ /\ setting = "alerts" /\ UNCHANGED <<inboxvars, jobvars, poolvars>>
          /\ AlertNext /\ FewAlerts

(* Fairness of the components, of each in its setting.                     *)
InboxFairness ==
    /\ \A h \in Handlers : WF_vars(setting = "inbox" /\ HandleWebhook(h))
    /\ WF_vars(setting = "inbox" /\ RetrySelect)
    /\ WF_vars(setting = "inbox" /\ RetryRun)
    /\ \A e \in Events :
           SF_vars(setting = "inbox" /\ \E h \in Handlers : Deliver(h, e))
JobFairness ==
    /\ WF_jobvars(setting = "dunning" /\ Dunning!Tick)
    /\ \A m \in Machines : WF_jobvars(setting = "dunning" /\ Dunning!Run(m))
PoolFairness ==
    /\ \A w \in Workers : /\ WF_poolvars(setting = "pool" /\ Pool!Acquire(w))
                          /\ WF_poolvars(setting = "pool" /\ Pool!GiveBack(w))
    /\ \A c \in Conns : WF_poolvars(setting = "pool" /\ Pool!AfterRelease(c))

MCSpec ==
    /\ MCInit /\ [][MCNext]_mcvars
    /\ InboxFairness /\ JobFairness /\ PoolFairness /\ AlertFairness

-----------------------------------------------------------------------------
(* The advisory lock keeps a job to one run at a time, and a reminder is   *)
(* sent once unless its run was disturbed; a connection is never in a      *)
(* scope that its user did not ask for.  (And what alerts are made of.)    *)
JobsHold ==
    /\ AlertTypeOK
    /\ Dunning!JobsTypeOK /\ Dunning!OneRunAtATime /\ Dunning!RemindedOnce
    /\ Pool!PoolTypeOK /\ Pool!NeverInherited

(* A crash at any point of a delivery is made up for by the gateway's next *)
(* one: every event ends up on record, unless a statement failed.  Whoever *)
(* waits for a connection gets one, jobs that hold one and wait for        *)
(* another included.                                                       *)
EveryEventIsRecorded ==
    /\ \A e \in Events : []<>(dbSound => HasOutcome(e))
    /\ Pool!EveryoneIsServed

(* Unless its record fails, every alert ends up sent or tried as often as  *)
(* allowed, also when a crash empties the queue.                           *)
RecordedAlertsSettle ==
    []<>(around.reliable =>
            \A i \in Ids : \/ alert[i].status \in {"none", "SENT"}
                           \/ alert[i].attempts >= MaxRetries)

(* What the schedule of the dunning job says (docs/endpoints.md:194, and   *)
(* the stages of migration 009): who stays overdue is reminded.  The query *)
(* of GetPendingDunning names tenants.email, so without that column no     *)
(* reminder ever goes out.                                                 *)
OverdueIsReminded == Dunning!Reminded

=============================================================================
