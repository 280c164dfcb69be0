-------------------------------- MODULE Jobs --------------------------------
(***************************************************************************)
(* A daily job on several machines (scheduler.go, WithAdvisoryLock), which *)
(* is the dunning job (RunDunningJob, dunning_repository.go): reminders of *)
(* stage 1, the only stage rows are created for.                           *)
(*                                                                         *)
(* The clock only tells whether it is the minute of the job.  One step is  *)
(* one statement or one message; several rows may be about one payment.    *)
(***************************************************************************)
EXTENDS Integers, FiniteSets

CONSTANTS
    Machines, NoMachine,
    Tenants, Payments,   \* numbers
    tenantOf,            \* tenantOf[p]: who owes payment p
    MaxRows,             \* bound: rows
    MaxFaults            \* bound: crashes, failed steps, lost connections

Rows == 1 .. MaxRows

VARIABLES
    minute,    \* it is 09:05
    due,       \* due[m]: the timer of m has gone off
    pc,        \* pc[m]: where the run of m is
    todo,      \* todo[m]: the rows that the run of m selected and has left
    holder,    \* whose session holds the advisory lock
    events,    \* events[r]: row of billing_dunning_events: its payment, age in
               \* days, sent or not
    overdue,   \* overdue[t]: status = 'PENDING_PAYMENT', with a subscription
    mails,     \* history: reminders that went out for each row, up to two
    hasEmail,  \* tenants has the column email, which no migration creates and
               \* somebody may have added: the job's query names it
    shaky,     \* history: rows that a run had before it when it was cut off,
               \* lost its session, or failed to mark one
    faults

jobvars == <<minute, due, pc, todo, holder, events, overdue, mails, hasEmail, shaky, faults>>
runvars == <<pc, todo, holder>>

NoRow == [pay |-> 0, age |-> 0, sent |-> FALSE]
Exists(r) == events[r].pay \in Payments
Tenant(r) == tenantOf[events[r].pay]
First(rows) == CHOOSE r \in rows : \A s \in rows : Tenant(r) <= Tenant(s)
(* created_at <= now - 1 day                                               *)
DaysToCutoff == 2

Init ==
    /\ minute = FALSE /\ due = [m \in Machines |-> FALSE]
    /\ pc = [m \in Machines |-> "waiting"] /\ todo = [m \in Machines |-> {}]
    /\ holder = NoMachine
    /\ events = [r \in Rows |-> NoRow]
    /\ overdue = [t \in Tenants |-> FALSE] /\ hasEmail \in BOOLEAN
    /\ mails = [r \in Rows |-> 0] /\ shaky = {} /\ faults = 0

-----------------------------------------------------------------------------
(* The rows: handlePaymentOverdue creates them, a payment ends them.       *)

Create(r, p) ==
    /\ ~Exists(r) /\ \A s \in 1 .. r - 1 : Exists(s)
    /\ events' = [events EXCEPT ![r] = [NoRow EXCEPT !.pay = p]]
    /\ overdue' = [overdue EXCEPT ![tenantOf[p]] = TRUE]
    /\ UNCHANGED <<hasEmail, minute, due, runvars, mails, shaky, faults>>

Paid(t) ==
    /\ overdue[t]
    /\ overdue' = [overdue EXCEPT ![t] = FALSE]
    /\ UNCHANGED <<hasEmail, minute, due, runvars, events, mails, shaky, faults>>

-----------------------------------------------------------------------------
(* The scheduler.                                                          *)

(* Time passes; a machine that is still running, or has just started, has  *)
(* no timer for this minute.                                               *)
Tick ==
    /\ \A m \in Machines : ~due[m]
    /\ minute' = ~minute
    /\ due' = [m \in Machines |-> minute' /\ pc[m] = "waiting"]
    /\ events' = [r \in Rows |->
           IF minute' /\ Exists(r) /\ events[r].age < DaysToCutoff
           THEN [events[r] EXCEPT !.age = @ + 1] ELSE events[r]]
    /\ UNCHANGED <<hasEmail, runvars, overdue, mails, shaky, faults>>

(* Mutant of RunOnce: the job runs whether it got the lock or not.         *)
RunUnlocked(m) ==
    /\ due[m] /\ due' = [due EXCEPT ![m] = FALSE]
    /\ holder' = IF holder = NoMachine THEN m ELSE holder
    /\ pc' = [pc EXCEPT ![m] = "select"]
    /\ UNCHANGED <<hasEmail, minute, todo, events, overdue, mails, shaky, faults>>
(* pg_try_advisory_lock: skipped when it runs elsewhere.                   *)
RunOnce(m) ==
    /\ due[m] /\ due' = [due EXCEPT ![m] = FALSE]
    /\ IF holder = NoMachine
       THEN holder' = m /\ pc' = [pc EXCEPT ![m] = "select"]
       ELSE UNCHANGED <<holder, pc>>
    /\ UNCHANGED <<hasEmail, minute, todo, events, overdue, mails, shaky, faults>>

Unlock(m) ==
    /\ pc[m] = "send" /\ todo[m] = {}
    /\ pc' = [pc EXCEPT ![m] = "waiting"]
    /\ holder' = IF holder = m THEN NoMachine ELSE holder
    /\ UNCHANGED <<hasEmail, minute, due, todo, events, overdue, mails, shaky, faults>>

-----------------------------------------------------------------------------
(* The dunning job.                                                        *)

Pending(r) ==
    /\ Exists(r) /\ events[r].age >= DaysToCutoff /\ ~events[r].sent
    /\ overdue[Tenant(r)]

(* One row of each tenant (its oldest, which the capped age does not tell).*)
(* Without the column the query fails, and its error ends the job.         *)
GetPendingDunning(m) ==
    /\ pc[m] = "select"
    /\ IF ~hasEmail THEN UNCHANGED todo
       ELSE \E chosen \in SUBSET {r \in Rows : Pending(r)} :
           /\ \A r \in Rows : Pending(r) =>
                  Cardinality({s \in chosen : Tenant(s) = Tenant(r)}) = 1
           /\ todo' = [todo EXCEPT ![m] = chosen]
    /\ pc' = [pc EXCEPT ![m] = "send"]
    /\ UNCHANGED <<hasEmail, minute, due, holder, events, overdue, mails, shaky, faults>>

At(m, label, r) == pc[m] = label /\ todo[m] # {} /\ r = First(todo[m])

SendDunningEmail(m, r) ==
    /\ At(m, "send", r)
    /\ mails' = [mails EXCEPT ![r] = IF @ < 2 THEN @ + 1 ELSE @]
    /\ pc' = [pc EXCEPT ![m] = "mark"]
    /\ UNCHANGED <<hasEmail, minute, due, todo, holder, events, overdue, shaky, faults>>

(* Only logged: the row stays for the next day.                            *)
SendFails(m, r) ==
    /\ At(m, "send", r)
    /\ faults < MaxFaults /\ faults' = faults + 1
    /\ todo' = [todo EXCEPT ![m] = @ \ {r}]
    /\ UNCHANGED <<hasEmail, minute, due, pc, holder, events, overdue, mails, shaky>>

(* Every row of the payment, whichever of them was selected.               *)
Marked(r) ==
    [s \in Rows |-> IF events[s].pay = events[r].pay
                    THEN [events[s] EXCEPT !.sent = TRUE] ELSE events[s]]

MarkEmailSent(m, r) ==
    /\ At(m, "mark", r)
    /\ events' = Marked(r)
    /\ todo' = [todo EXCEPT ![m] = @ \ {r}]
    /\ pc' = [pc EXCEPT ![m] = "send"]
    /\ UNCHANGED <<hasEmail, minute, due, holder, overdue, mails, shaky, faults>>

(* The error ends the job, with the reminders that were still to be sent.  *)
MarkFails(m, r) ==
    /\ At(m, "mark", r)
    /\ faults < MaxFaults /\ faults' = faults + 1
    /\ shaky' = shaky \cup {r}
    /\ todo' = [todo EXCEPT ![m] = {}]
    /\ pc' = [pc EXCEPT ![m] = "send"]
    /\ UNCHANGED <<hasEmail, minute, due, holder, events, overdue, mails>>

-----------------------------------------------------------------------------
(* Faults.                                                                 *)

Fault(m) ==
    /\ faults < MaxFaults /\ faults' = faults + 1
    /\ shaky' = shaky \cup IF pc[m] = "select" THEN Rows ELSE todo[m]
    /\ holder' = IF holder = m THEN NoMachine ELSE holder
    /\ UNCHANGED <<hasEmail, minute, events, overdue, mails>>

(* The session of the lock ends and the run goes on.                       *)
LoseConnection(m) ==
    /\ holder = m
    /\ Fault(m)
    /\ UNCHANGED <<due, pc, todo>>

(* The machine starts again and waits for the next minute.                 *)
Restart(m) ==
    /\ Fault(m)
    /\ due' = [due EXCEPT ![m] = FALSE]
    /\ pc' = [pc EXCEPT ![m] = "waiting"] /\ todo' = [todo EXCEPT ![m] = {}]

Run(m) ==
    \/ RunOnce(m) \/ GetPendingDunning(m) \/ Unlock(m)
    \/ \E r \in Rows : \/ SendDunningEmail(m, r) \/ SendFails(m, r)
                       \/ MarkEmailSent(m, r) \/ MarkFails(m, r)
Next ==
    \/ Tick
    \/ \E r \in Rows, p \in Payments : Create(r, p)
    \/ \E t \in Tenants : Paid(t)
    \/ \E m \in Machines : Run(m) \/ LoseConnection(m) \/ Restart(m)

(* Timers go off and statements return.                                    *)
Fairness ==
    /\ WF_jobvars(Tick)
    /\ \A m \in Machines : WF_jobvars(Run(m))

-----------------------------------------------------------------------------
JobsTypeOK ==
    /\ minute \in BOOLEAN /\ due \in [Machines -> BOOLEAN]
    /\ pc \in [Machines -> {"waiting", "select", "send", "mark"}]
    /\ todo \in [Machines -> SUBSET Rows] /\ holder \in Machines \cup {NoMachine}
    /\ events \in [Rows -> [pay : {0} \cup Payments, age : 0 .. DaysToCutoff,
                          sent : BOOLEAN]]
    /\ faults \in 0 .. MaxFaults

(* Whatever machines wake up, one run is under way, until a session ends.  *)
OneRunAtATime ==
    faults = 0 => Cardinality({m \in Machines : pc[m] # "waiting"}) <= 1

(* However many machines run the job on a day, a row is reminded of once;  *)
(* only a run cut off, or whose session was lost or marking failed, before *)
(* it had done with the row, lets that be repeated.                        *)
RemindedOnce == \A r \in Rows \ shaky : mails[r] <= 1

(* Not to hold for ever: a tenant is overdue and not reminded.             *)
Neglected == \E r \in Rows : Exists(r) /\ ~events[r].sent /\ overdue[Tenant(r)]
Reminded == []<>~Neglected

=============================================================================
